---------------------------- MODULE Spec2Model ----------------------------
(***************************************************************************)
(* pylox: the resolver pass (pylox/resolver.py) and the tree-walking       *)
(* interpreter (pylox/interpreter.py, pylox/environment.py) as a state     *)
(* machine.                                                                *)
(*                                                                         *)
(* A program is an AST.  The identity of a node (Python's id(node), the    *)
(* key of Interpreter._locals) is its path from the root: the sequence of  *)
(* child indexes.  Python's recursion is made explicit: `kont` is the      *)
(* stack of suspended visit_* calls, `mode` says whether the machine is    *)
(* entering a node, returning a value to the suspended call on top of      *)
(* `kont`, or propagating an exception through it.                         *)
(***************************************************************************)
EXTENDS Integers, Sequences, FiniteSets, TLC

(***************************************************************************)
(* Bounds of the model.                                                    *)
(***************************************************************************)
\* Nesting depth of the constructs wrapped around a program fragment.
MaxNest == 2
\* Iterations of the counting for-loops of the fragments (`i < LoopLimit`).
LoopLimit == 3
\* Depth of the recursion `r(RecDepth)` of the recursive fragment.
RecDepth == 2

(***************************************************************************)
(* Lox values.  One record shape for every kind, so that any two values    *)
(* can be compared: t is the Python type, n the number (or the truth       *)
(* value of a bool, which Python treats as the integers 1 and 0, or the    *)
(* closure environment of a function), s the string (or the name of a      *)
(* function), p the path of the FunStmt of a function.                     *)
(***************************************************************************)
Nil == [t |-> "nil", n |-> 0, s |-> "", p |-> <<>>]
Bool(b) == [t |-> "bool", n |-> IF b THEN 1 ELSE 0, s |-> "", p |-> <<>>]
\* A number n / d that is not an integer, in lowest terms with d > 1.
Fraction(n, d) == [t |-> "float", n |-> n, s |-> "", p |-> <<d>>]
Num(n) == [t |-> "float", n |-> n, s |-> "", p |-> <<>>]
Str(s) == [t |-> "str", n |-> 0, s |-> s, p |-> <<>>]
LoxFunction(closure, name, declaration) ==
    [t |-> "LoxFunction", n |-> closure, s |-> name, p |-> declaration]
Clock == [t |-> "Clock", n |-> 0, s |-> "clock", p |-> <<>>]

(***************************************************************************)
(* AST nodes (pylox/nodes/expr.py, pylox/nodes/stmt.py).  k is the node    *)
(* class, name the lexeme of its name or operator token, val the value of  *)
(* a literal, params the parameter names of a function, kids the child     *)
(* nodes in field order; an absent optional child is NoneNode.             *)
(***************************************************************************)
Node(k, name, val, params, kids) ==
    [k |-> k, name |-> name, val |-> val, params |-> params, kids |-> kids]
NoneNode == Node("None", "", Nil, <<>>, <<>>)

LiteralExpr(v) == Node("LiteralExpr", "", v, <<>>, <<>>)
VarExpr(name) == Node("VarExpr", name, Nil, <<>>, <<>>)
AssignExpr(name, value) == Node("AssignExpr", name, Nil, <<>>, <<value>>)
BinaryExpr(left, op, right) == Node("BinaryExpr", op, Nil, <<>>, <<left, right>>)
LogicalExpr(left, op, right) == Node("LogicalExpr", op, Nil, <<>>, <<left, right>>)
UnaryExpr(op, right) == Node("UnaryExpr", op, Nil, <<>>, <<right>>)
GroupingExpr(expr) == Node("GroupingExpr", "", Nil, <<>>, <<expr>>)
\* kids[1] is the callee, kids[2..] are the arguments.
CallExpr(callee, args) == Node("CallExpr", "", Nil, <<>>, <<callee>> \o args)
\* name is the keyword's lexeme, which the resolver looks up
ThisExpr == Node("ThisExpr", "this", Nil, <<>>, <<>>)
SuperExpr(method) == Node("SuperExpr", "super", Str(method), <<>>, <<>>)
\* name is the property's name; kids: the object, then the value set
GetExpr(obj, name) == Node("GetExpr", name, Nil, <<>>, <<obj>>)
SetExpr(obj, name, value) == Node("SetExpr", name, Nil, <<>>, <<obj, value>>)

BlockStmt(statements) == Node("BlockStmt", "", Nil, <<>>, statements)
\* kids: the superclass (a VarExpr or none), then the methods
ClassStmt(name, superclass, methods) ==
    Node("ClassStmt", name, Nil, <<>>, <<superclass>> \o methods)
ExprStmt(expr) == Node("ExprStmt", "", Nil, <<>>, <<expr>>)
\* kids = <<initializer, condition, increment, body>>.
ForStmt(initializer, condition, increment, body) ==
    Node("ForStmt", "", Nil, <<>>, <<initializer, condition, increment, body>>)
\* kids = <<body>>, a BlockStmt (Parser.parse_function).
FunStmt(name, params, body) == Node("FunStmt", name, Nil, params, <<BlockStmt(body)>>)
\* kids = <<condition, then_branch, else_branch>>.
IfStmt(condition, thenBranch, elseBranch) ==
    Node("IfStmt", "", Nil, <<>>, <<condition, thenBranch, elseBranch>>)
PrintStmt(expr) == Node("PrintStmt", "", Nil, <<>>, <<expr>>)
ReturnStmt(value) == Node("ReturnStmt", "return", Nil, <<>>, <<value>>)
VarStmt(name, initializer) == Node("VarStmt", name, Nil, <<>>, <<initializer>>)
WhileStmt(condition, body) == Node("WhileStmt", "", Nil, <<>>, <<condition, body>>)

ExprKinds == {"LiteralExpr", "VarExpr", "AssignExpr", "BinaryExpr", "LogicalExpr",
              "UnaryExpr", "GroupingExpr", "CallExpr"}

(***************************************************************************)
(* The programs the machine is started on: a fragment wrapped in up to     *)
(* MaxNest enclosing constructs.  Fragments are written as the parser      *)
(* builds them (Parser.parse_declaration .. Parser.parse_primary): var and *)
(* fun declarations stand only in blocks, at top level and as a for        *)
(* initializer.                                                            *)
(***************************************************************************)
N(n) == LiteralExpr(Num(n))
V(name) == VarExpr(name)
Plus(l, r) == BinaryExpr(l, "+", r)
Less(l, r) == BinaryExpr(l, "<", r)
Call0(name) == CallExpr(V(name), <<>>)
\* for (var <name> = 0; <name> < <limit>; <name> = <name> + 1) <body>
CountingFor(name, limit, body) ==
    ForStmt(VarStmt(name, N(0)), Less(V(name), N(limit)),
            AssignExpr(name, Plus(V(name), N(1))), body)

\* The literals the equality fragment compares with each other.
EqualityOperands ==
    << Nil, Bool(TRUE), Bool(FALSE), Num(0), Num(1), Str("a"), Str("b") >>
\* print <left> <op> <right>; for every pair of EqualityOperands.
EqualityPrints(op) ==
    LET n == Len(EqualityOperands) IN
    [k \in 1..(n * n) |->
        PrintStmt(BinaryExpr(LiteralExpr(EqualityOperands[((k - 1) \div n) + 1]), op,
                             LiteralExpr(EqualityOperands[((k - 1) % n) + 1])))]

Fragments == {"for_stmt", "for_block", "for_outer", "for_assign", "counter",
              "scoping", "shadow", "return", "arity", "err_type", "err_read",
              "err_assign", "err_call", "self_assign", "builtin", "class",
              "equality", "division", "logical",
              "var_self", "var_self_outer", "for_self",
              "redeclare", "redeclare_fun", "dup_param", "param_shadow",
              "for_shadow", "two_for",
              "class_this", "class_dup", "class_self", "class_super",
              "this_outside", "occurrences"}

Fragment(f) ==
    CASE f = "for_stmt" ->
           \* for (var i = 0; i < LoopLimit; i = i + 1) print i;
           << CountingFor("i", LoopLimit, PrintStmt(V("i"))) >>
      [] f = "for_block" ->
           \* for (var i = 0; i < LoopLimit; i = i + 1) { print i; }
           << CountingFor("i", LoopLimit, BlockStmt(<< PrintStmt(V("i")) >>)) >>
      [] f = "for_outer" ->
           \* var x = 7; for (var i = 0; i < 1; i = i + 1) { print x; } print x;
           << VarStmt("x", N(7)),
              CountingFor("i", 1, BlockStmt(<< PrintStmt(V("x")) >>)),
              PrintStmt(V("x")) >>
      [] f = "for_assign" ->
           \* var x = 0; for (var i = 0; i < 1; i = i + 1) x = 5; print x;
           << VarStmt("x", N(0)),
              CountingFor("i", 1, ExprStmt(AssignExpr("x", N(5)))),
              PrintStmt(V("x")) >>
      [] f = "counter" ->
           \* fun makeCounter() { var i = 0; fun count() { i = i + 1; print i; }
           \*                     return count; }
           \* var c1 = makeCounter(); var c2 = makeCounter(); c1(); c1(); c2();
           << FunStmt("makeCounter", <<>>,
                << VarStmt("i", N(0)),
                   FunStmt("count", <<>>,
                     << ExprStmt(AssignExpr("i", Plus(V("i"), N(1)))),
                        PrintStmt(V("i")) >>),
                   ReturnStmt(V("count")) >>),
              VarStmt("c1", Call0("makeCounter")),
              VarStmt("c2", Call0("makeCounter")),
              ExprStmt(Call0("c1")), ExprStmt(Call0("c1")), ExprStmt(Call0("c2")) >>
      [] f = "scoping" ->
           \* var x = 1; fun f() { print x; } fun g() { var x = 2; f(); } g();
           \* fun r(n) { if (n > 0) r(n - 1); print n; } r(RecDepth);
           << VarStmt("x", N(1)),
              FunStmt("f", <<>>, << PrintStmt(V("x")) >>),
              FunStmt("g", <<>>, << VarStmt("x", N(2)), ExprStmt(Call0("f")) >>),
              ExprStmt(Call0("g")),
              FunStmt("r", <<"n">>,
                << IfStmt(BinaryExpr(V("n"), ">", N(0)),
                          ExprStmt(CallExpr(V("r"), << BinaryExpr(V("n"), "-", N(1)) >>)),
                          NoneNode),
                   PrintStmt(V("n")) >>),
              ExprStmt(CallExpr(V("r"), << N(RecDepth) >>)) >>
      [] f = "shadow" ->
           \* var a = 1; var b = 2; var c = 3;
           \* { var a = 11; var b = 12;
           \*   { var a = 21; print a; print b; print c; }
           \*   print a; print b; print c; }
           \* print a; print b; print c;
           << VarStmt("a", N(1)), VarStmt("b", N(2)), VarStmt("c", N(3)),
              BlockStmt(<< VarStmt("a", N(11)), VarStmt("b", N(12)),
                           BlockStmt(<< VarStmt("a", N(21)), PrintStmt(V("a")),
                                        PrintStmt(V("b")), PrintStmt(V("c")) >>),
                           PrintStmt(V("a")), PrintStmt(V("b")), PrintStmt(V("c")) >>),
              PrintStmt(V("a")), PrintStmt(V("b")), PrintStmt(V("c")) >>
      [] f = "return" ->
           \* fun inner() { while (true) { if (true) { return 1; } print 97; } print 98; }
           \* fun outer() { var v = inner(); print v;
           \*               for (var j = 0; j < LoopLimit; j = j + 1)
           \*                   { if (j == 1) return j + 10; }
           \*               print 99; }
           \* print outer();
           \* fun bare() { return; print 96; }
           \* print bare();
           << FunStmt("inner", <<>>,
                << WhileStmt(LiteralExpr(Bool(TRUE)),
                     BlockStmt(<< IfStmt(LiteralExpr(Bool(TRUE)),
                                         BlockStmt(<< ReturnStmt(N(1)) >>), NoneNode),
                                  PrintStmt(N(97)) >>)),
                   PrintStmt(N(98)) >>),
              FunStmt("outer", <<>>,
                << VarStmt("v", Call0("inner")), PrintStmt(V("v")),
                   CountingFor("j", LoopLimit,
                     BlockStmt(<< IfStmt(BinaryExpr(V("j"), "==", N(1)),
                                         ReturnStmt(Plus(V("j"), N(10))), NoneNode) >>)),
                   PrintStmt(N(99)) >>),
              PrintStmt(Call0("outer")),
              FunStmt("bare", <<>>, << ReturnStmt(NoneNode), PrintStmt(N(96)) >>),
              PrintStmt(Call0("bare")) >>
      [] f = "arity" ->
           \* var x = 0; fun f(a) { print 9; } f(x = 1, x = 2);
           << VarStmt("x", N(0)),
              FunStmt("f", <<"a">>, << PrintStmt(N(9)) >>),
              ExprStmt(CallExpr(V("f"), << AssignExpr("x", N(1)), AssignExpr("x", N(2)) >>)) >>
      [] f = "err_type" ->
           \* print 1 + nil;
           << PrintStmt(Plus(N(1), LiteralExpr(Nil))) >>
      [] f = "err_read" ->
           \* print u;
           << PrintStmt(V("u")) >>
      [] f = "err_assign" ->
           \* u = 1;
           << ExprStmt(AssignExpr("u", N(1))) >>
      [] f = "err_call" ->
           \* var n = 1; n();
           << VarStmt("n", N(1)), ExprStmt(Call0("n")) >>
      [] f = "self_assign" ->
           \* var x = x = 1; print x;
           << VarStmt("x", AssignExpr("x", N(1))), PrintStmt(V("x")) >>
      [] f = "builtin" ->
           \* clock(); var u; print u; print 1 or 2; print nil and 1; print !nil;
           \* print -(1); print "foo" + "bar"; if (false) print 1; else print 0;
           << ExprStmt(Call0("clock")), VarStmt("u", NoneNode), PrintStmt(V("u")),
              PrintStmt(LogicalExpr(N(1), "or", N(2))),
              PrintStmt(LogicalExpr(LiteralExpr(Nil), "and", N(1))),
              PrintStmt(UnaryExpr("!", LiteralExpr(Nil))),
              PrintStmt(UnaryExpr("-", GroupingExpr(N(1)))),
              PrintStmt(Plus(LiteralExpr(Str("foo")), LiteralExpr(Str("bar")))),
              IfStmt(LiteralExpr(Bool(FALSE)), PrintStmt(N(1)), PrintStmt(N(0))) >>
      [] f = "class" ->
           \* class Empty{}
           << ClassStmt("Empty", NoneNode, <<>>) >>
      [] f = "equality" ->
           \* print nil == nil; print nil == true; .. print "b" == "b";
           \* print nil != nil; .. print "b" != "b";
           EqualityPrints("==") \o EqualityPrints("!=")
      [] f = "division" ->
           \* print 6 / 3; print 1 / 2 + 1 / 2; print 1 / 0 == 1 / 0;
           << PrintStmt(BinaryExpr(N(6), "/", N(3))),
              PrintStmt(Plus(BinaryExpr(N(1), "/", N(2)), BinaryExpr(N(1), "/", N(2)))),
              PrintStmt(BinaryExpr(BinaryExpr(N(1), "/", N(0)), "==",
                                   BinaryExpr(N(1), "/", N(0)))) >>
      [] f = "logical" ->
           \* var x = 0;
           \* print 1 or (x = 5); print x;   print nil or (x = 6); print x;
           \* print nil and (x = 7); print x; print 1 and (x = 8); print x;
           \* print false or nil; print 0 and "a";
           << VarStmt("x", N(0)),
              PrintStmt(LogicalExpr(N(1), "or", GroupingExpr(AssignExpr("x", N(5))))),
              PrintStmt(V("x")),
              PrintStmt(LogicalExpr(LiteralExpr(Nil), "or", GroupingExpr(AssignExpr("x", N(6))))),
              PrintStmt(V("x")),
              PrintStmt(LogicalExpr(LiteralExpr(Nil), "and", GroupingExpr(AssignExpr("x", N(7))))),
              PrintStmt(V("x")),
              PrintStmt(LogicalExpr(N(1), "and", GroupingExpr(AssignExpr("x", N(8))))),
              PrintStmt(V("x")),
              PrintStmt(LogicalExpr(LiteralExpr(Bool(FALSE)), "or", LiteralExpr(Nil))),
              PrintStmt(LogicalExpr(N(0), "and", LiteralExpr(Str("a")))) >>
      [] f = "var_self" ->
           \* var a = a; print a;
           << VarStmt("a", V("a")), PrintStmt(V("a")) >>
      [] f = "var_self_outer" ->
           \* var a = 1; { var a = a; print a; }
           << VarStmt("a", N(1)),
              BlockStmt(<< VarStmt("a", V("a")), PrintStmt(V("a")) >>) >>
      [] f = "for_self" ->
           \* for (var a = a; a < 1; a = a + 1) print a;
           << ForStmt(VarStmt("a", V("a")), Less(V("a"), N(1)),
                      AssignExpr("a", Plus(V("a"), N(1))), PrintStmt(V("a"))) >>
      [] f = "redeclare" ->
           \* var a = 1; var a = 2; print a;
           << VarStmt("a", N(1)), VarStmt("a", N(2)), PrintStmt(V("a")) >>
      [] f = "redeclare_fun" ->
           \* fun f() { print 1; } fun f() { print 2; } f();
           << FunStmt("f", <<>>, << PrintStmt(N(1)) >>),
              FunStmt("f", <<>>, << PrintStmt(N(2)) >>),
              ExprStmt(Call0("f")) >>
      [] f = "dup_param" ->
           \* fun f(a, a) { print a; }
           << FunStmt("f", <<"a", "a">>, << PrintStmt(V("a")) >>) >>
      [] f = "param_shadow" ->
           \* var a = 1; fun f(a) { var b = a; { var a = 3; print a; } print b; }
           \* f(2); print a;
           << VarStmt("a", N(1)),
              FunStmt("f", <<"a">>,
                << VarStmt("b", V("a")),
                   BlockStmt(<< VarStmt("a", N(3)), PrintStmt(V("a")) >>),
                   PrintStmt(V("b")) >>),
              ExprStmt(CallExpr(V("f"), << N(2) >>)), PrintStmt(V("a")) >>
      [] f = "for_shadow" ->
           \* var i = 5; for (var i = 0; i < 1; i = i + 1) print i;
           << VarStmt("i", N(5)), CountingFor("i", 1, PrintStmt(V("i"))) >>
      [] f = "two_for" ->
           \* for (var i = 0; i < 1; i = i + 1) print i;
           \* for (var i = 0; i < 1; i = i + 1) print i;
           << CountingFor("i", 1, PrintStmt(V("i"))),
              CountingFor("i", 1, PrintStmt(V("i"))) >>
      [] f = "class_this" ->
           \* class A { m(p) { print this; print p; } }
           << ClassStmt("A", NoneNode,
                << FunStmt("m", <<"p">>, << PrintStmt(ThisExpr), PrintStmt(V("p")) >>) >>) >>
      [] f = "class_dup" ->
           \* class A { m() { var a = 1; var a = 2; } }
           << ClassStmt("A", NoneNode,
                << FunStmt("m", <<>>, << VarStmt("a", N(1)), VarStmt("a", N(2)) >>) >>) >>
      [] f = "class_self" ->
           \* class A { m() { var a = a; } }
           << ClassStmt("A", NoneNode,
                << FunStmt("m", <<>>, << VarStmt("a", V("a")) >>) >>) >>
      [] f = "class_super" ->
           \* class A { m() { print super.m; } }
           << ClassStmt("A", NoneNode,
                << FunStmt("m", <<>>, << PrintStmt(SuperExpr("m")) >>) >>) >>
      [] f = "occurrences" ->
           \* var a = 1; { var b = 2; { print a; print b; } print b; } print a;
           << VarStmt("a", N(1)),
              BlockStmt(<< VarStmt("b", N(2)),
                           BlockStmt(<< PrintStmt(V("a")), PrintStmt(V("b")) >>),
                           PrintStmt(V("b")) >>),
              PrintStmt(V("a")) >>
      [] f = "this_outside" ->
           \* fun f() { print this; }
           << FunStmt("f", <<>>, << PrintStmt(ThisExpr) >>) >>

\* The constructs a fragment is wrapped in.
Wrappers == {"block", "fun", "for"}
Wrap(w, statements) ==
    CASE w = "block" ->
           \* { <statements> }
           << BlockStmt(statements) >>
      [] w = "fun" ->
           \* fun w() { <statements> } w();
           << FunStmt("w", <<>>, statements), ExprStmt(Call0("w")) >>
      [] w = "for" ->
           \* for (var k = 0; k < 1; k = k + 1) { <statements> }
           << CountingFor("k", 1, BlockStmt(statements)) >>

RECURSIVE WrapAll(_, _)
\* ctx[1] is the outermost wrapper.
WrapAll(ctx, statements) ==
    IF ctx = <<>> THEN statements
    ELSE Wrap(Head(ctx), WrapAll(Tail(ctx), statements))

RECURSIVE SeqsUpTo(_, _)
SeqsUpTo(S, n) ==
    IF n = 0 THEN {<<>>}
    ELSE SeqsUpTo(S, n - 1) \cup
         {<<x>> \o s : x \in S, s \in {t \in SeqsUpTo(S, n - 1) : Len(t) = n - 1}}
Contexts == SeqsUpTo(Wrappers, MaxNest)

Programs == [ctx : Contexts, frag : Fragments]
\* The root of the AST: the statement list Parser.parse returns.
ProgramTable ==
    [p \in Programs |-> Node("Program", "", Nil, <<>>, WrapAll(p.ctx, Fragment(p.frag)))]

RECURSIVE NodeAt(_, _)
NodeAt(node, path) ==
    IF path = <<>> THEN node ELSE NodeAt(node.kids[Head(path)], Tail(path))

(***************************************************************************)
(* Resolver (pylox/resolver.py).  The pass is a recursive walk without     *)
(* loops; it is the operator Resolve on a resolver state                   *)
(*   scopes            Scopes.scopes, a stack of maps name -> bool         *)
(*   locals            Interpreter._locals.data, node -> hop distance      *)
(*   current_function  Resolver._current_function                          *)
(*   errors            Errors.errors                                       *)
(*   raised            a PyloxResolverError is propagating: every later    *)
(*                     statement of the walk is skipped                    *)
(* and two records kept beside the code's state to state claims with:      *)
(*   scope_nodes       for each scope of the stack, the node that opened   *)
(*                     it                                                  *)
(*   decl_scope        for each resolved reference, the node that opened   *)
(*                     the scope get_distance found the name in            *)
(***************************************************************************)
EmptyMap == [x \in {} |-> Nil]

ResolverInit ==
    [scopes |-> <<>>, scope_nodes |-> <<>>, locals |-> EmptyMap,
     decl_scope |-> EmptyMap, current_function |-> "NONE",
     current_class |-> "NONE", errors |-> <<>>, raised |-> FALSE]

\* Errors.record, and the `raise` of its result.
RaiseResolverError(rs, message) ==
    [rs EXCEPT !.errors = Append(@, [cls |-> "PyloxResolverError", message |-> message]),
               !.raised = TRUE]

begin_scope(rs, node) ==
    [rs EXCEPT !.scopes = Append(@, EmptyMap), !.scope_nodes = Append(@, node)]

end_scope(rs) ==
    [rs EXCEPT !.scopes = SubSeq(@, 1, Len(@) - 1),
               !.scope_nodes = SubSeq(@, 1, Len(@) - 1)]

declare(rs, name) ==
    IF rs.scopes = <<>> THEN rs
    ELSE IF name \in DOMAIN rs.scopes[Len(rs.scopes)]
         THEN RaiseResolverError(rs, "already exists in scope")
         ELSE [rs EXCEPT !.scopes[Len(rs.scopes)] = (name :> FALSE) @@ @]

define(rs, name) ==
    IF rs.scopes = <<>> THEN rs
    ELSE [rs EXCEPT !.scopes[Len(rs.scopes)] = (name :> TRUE) @@ @]

is_defined_in_current_scope(scopes, name) ==
    IF scopes # <<>> THEN name \in DOMAIN scopes[Len(scopes)] ELSE FALSE

is_initialized_in_current_scope(scopes, name) ==
    IF scopes = <<>> THEN FALSE
    ELSE IF name \notin DOMAIN scopes[Len(scopes)] THEN FALSE
    ELSE scopes[Len(scopes)][name]

\* The scopes that hold the name, as indexes of the stack.
ScopesWith(scopes, name) == {j \in 1..Len(scopes) : name \in DOMAIN scopes[j]}
Max(S) == CHOOSE x \in S : \A y \in S : y <= x
Min(S) == CHOOSE x \in S : \A y \in S : x <= y
NotFound == -1

\* A get_distance that searches the scopes outermost first.
get_distance_outermost(scopes, name) ==
    IF ScopesWith(scopes, name) = {} THEN NotFound
    ELSE Len(scopes) - Min(ScopesWith(scopes, name))

\* Scopes.get_distance: the first scope of reversed(scopes) that holds the
\* name; NotFound stands for the ValueError.
get_distance(scopes, name) ==
    IF ScopesWith(scopes, name) = {} THEN NotFound
    ELSE Len(scopes) - Max(ScopesWith(scopes, name))

\* Resolver.resolve_local with Interpreter.resolve: the ValueError is
\* suppressed and nothing is recorded.
resolve_local(rs, path, name) ==
    LET d == get_distance(rs.scopes, name) IN
    IF d = NotFound THEN rs
    ELSE [rs EXCEPT !.locals = (path :> d) @@ @,
                    !.decl_scope = (path :> rs.scope_nodes[Len(rs.scopes) - d]) @@ @]

RECURSIVE DeclareParams(_, _)
\* for param in stmt.params: declare(param); define(param)
DeclareParams(rs, params) ==
    IF params = <<>> \/ rs.raised THEN rs
    ELSE LET r == declare(rs, Head(params)) IN
         IF r.raised THEN r ELSE DeclareParams(define(r, Head(params)), Tail(params))

RECURSIVE Resolve(_, _, _)
RECURSIVE ResolveAll(_, _, _, _)
\* Resolver.resolve(*nodes) on the children `kids` of the node at `path`.
ResolveAll(root, path, kids, rs) ==
    IF kids = <<>> \/ rs.raised THEN rs
    ELSE ResolveAll(root, path, Tail(kids), Resolve(root, path \o <<Head(kids)>>, rs))

\* visit_node(node, resolver) for the node at `path`.
Resolve(root, path, rs) ==
    LET node == NodeAt(root, path)
        all == [i \in 1..Len(node.kids) |-> i]
    IN
    IF rs.raised THEN rs
    ELSE CASE node.k \in {"None", "LiteralExpr"} -> rs
      \* visit_class_stmt is `...`: the methods are not visited and
      \* _current_class stays NONE
      [] node.k = "ClassStmt" -> rs
      [] node.k \in {"Program", "ForStmt", "ExprStmt", "IfStmt", "PrintStmt",
                     "WhileStmt", "BinaryExpr", "CallExpr", "GroupingExpr",
                     "LogicalExpr", "UnaryExpr"} ->
           ResolveAll(root, path, all, rs)
      [] node.k = "BlockStmt" ->
           LET r == ResolveAll(root, path, all, begin_scope(rs, path)) IN
           IF r.raised THEN r ELSE end_scope(r)
      [] node.k = "FunStmt" ->
           LET r1 == declare(rs, node.name)
               r2 == define(r1, node.name)
               \* resolve_function(stmt, FunctionType.FUNCTION)
               r3 == begin_scope([r2 EXCEPT !.current_function = "FUNCTION"], path)
               r4 == DeclareParams(r3, node.params)
               r5 == ResolveAll(root, path, all, r4)
           IN IF r1.raised THEN r1
              ELSE IF r5.raised THEN r5
              ELSE [end_scope(r5) EXCEPT !.current_function = rs.current_function]
      [] node.k = "ReturnStmt" ->
           IF rs.current_function = "NONE"
           THEN RaiseResolverError(rs, "Cannot return from top-level code")
           ELSE IF node.kids[1].k # "None" /\ rs.current_function = "INITIALIZER"
           THEN RaiseResolverError(rs, "Cannot return a value from an initializer")
           ELSE ResolveAll(root, path, all, rs)
      [] node.k = "VarStmt" ->
           LET r1 == declare(rs, node.name)
               r2 == ResolveAll(root, path, all, r1)
           IN IF r2.raised THEN r2 ELSE define(r2, node.name)
      [] node.k = "AssignExpr" ->
           LET r == ResolveAll(root, path, all, rs) IN
           IF r.raised THEN r ELSE resolve_local(r, path, node.name)
      [] node.k = "VarExpr" ->
           IF /\ rs.scopes # <<>>
              /\ is_defined_in_current_scope(rs.scopes, node.name)
              /\ ~is_initialized_in_current_scope(rs.scopes, node.name)
           THEN RaiseResolverError(rs, "Cannot read local variable in its own initializer")
           ELSE resolve_local(rs, path, node.name)
      [] node.k = "ThisExpr" ->
           IF rs.current_class = "NONE"
           THEN RaiseResolverError(rs, "Cannot use 'this' outside of a class")
           ELSE resolve_local(rs, path, node.name)
      [] node.k = "SuperExpr" ->
           IF rs.current_class = "NONE"
           THEN RaiseResolverError(rs, "Cannot use 'super' outside of a class")
           ELSE IF rs.current_class # "SUBCLASS"
           THEN RaiseResolverError(rs, "Cannot use 'super' in a class with no superclass")
           ELSE resolve_local(rs, path, node.name)

(***************************************************************************)
(* Environment (pylox/environment.py).  The environments live in a heap    *)
(* `envs`; a reference to an environment is its index, 0 is None.  Each    *)
(* environment also remembers the node whose execution created it          *)
(* (origin), which the code does not store.                                *)
(***************************************************************************)
NoEnv == 0
GlobalEnv == 1
\* An Environment constructed without its enclosing argument.
Environment_detached(enclosing, origin) ==
    [enclosing |-> NoEnv, values |-> EmptyMap, origin |-> origin]

\* Environment(enclosing=enclosing); origin is the node whose execution
\* constructed it.
Environment(enclosing, origin) ==
    [enclosing |-> enclosing, values |-> EmptyMap, origin |-> origin]

\* Environment.define
Environment_define(heap, e, name, value) ==
    [heap EXCEPT ![e].values = (name :> value) @@ @]

RECURSIVE Environment_ancestor(_, _, _)
\* Environment.ancestor; NoEnv stands for the ValueError.
Environment_ancestor(heap, e, distance) ==
    IF distance = 0 THEN e
    ELSE IF heap[e].enclosing = NoEnv THEN NoEnv
    ELSE Environment_ancestor(heap, heap[e].enclosing, distance - 1)

Ok(v) == [err |-> "", v |-> v]
Err(cls) == [err |-> cls, v |-> Nil]

RECURSIVE Environment_get(_, _, _)
\* Environment.get
Environment_get(heap, e, name) ==
    IF name \in DOMAIN heap[e].values THEN Ok(heap[e].values[name])
    ELSE IF heap[e].enclosing # NoEnv THEN Environment_get(heap, heap[e].enclosing, name)
    ELSE Err("KeyError")

\* Environment.get_at
Environment_get_at(heap, e, distance, name) ==
    LET a == Environment_ancestor(heap, e, distance) IN
    IF a = NoEnv THEN Err("ValueError")
    ELSE IF name \in DOMAIN heap[a].values THEN Ok(heap[a].values[name])
    ELSE Err("KeyError")

RECURSIVE Environment_assign(_, _, _, _)
\* Environment.assign: the heap after the assignment, or the KeyError.
Environment_assign(heap, e, name, value) ==
    IF name \in DOMAIN heap[e].values
    THEN [err |-> "", heap |-> [heap EXCEPT ![e].values[name] = value]]
    ELSE IF heap[e].enclosing # NoEnv
    THEN Environment_assign(heap, heap[e].enclosing, name, value)
    ELSE [err |-> "KeyError", heap |-> heap]

\* Environment.assign_at: a dict store, which binds the name when the
\* environment does not hold it.
Environment_assign_at(heap, e, distance, name, value) ==
    LET a == Environment_ancestor(heap, e, distance) IN
    IF a = NoEnv THEN [err |-> "ValueError", heap |-> heap]
    ELSE [err |-> "", heap |-> Environment_define(heap, a, name, value)]

(***************************************************************************)
(* Interpreter helpers (pylox/interpreter.py).  Numbers are the            *)
(* integer-valued floats.                                                  *)
(***************************************************************************)
is_truthy(value) ==
    IF value.t = "nil" THEN FALSE
    ELSE IF value.t = "bool" THEN value.n = 1 ELSE TRUE

as_str(value) ==
    IF value.t = "nil" THEN "nil"
    ELSE IF value.t = "bool" THEN (IF value.n = 1 THEN "true" ELSE "false")
    ELSE IF value.t = "float" /\ value.p = <<>> THEN ToString(value.n)
    \* str() of a float that is not an integer, written as the fraction
    ELSE IF value.t = "float" THEN ToString(value.n) \o "/" \o ToString(value.p[1])
    ELSE IF value.t = "str" THEN value.s
    ELSE IF value.t = "Clock" THEN "<builtin: Clock>"
    \* str() of a LoxFunction is the repr attrs generates, cut to its head
    ELSE "LoxFunction(" \o value.s \o ")"

\* Python's ==: bool is a subclass of int, so bools and floats compare as
\* numbers; None equals only None; values of other types compare with their
\* own kind.
PyEq(left, right) ==
    IF left.t \in {"bool", "float"} /\ right.t \in {"bool", "float"}
    THEN left.n = right.n /\ left.p = right.p
    ELSE left = right

\* ensure_types(float, *values)
AllFloat(values) == \A i \in 1..Len(values) : values[i].t = "float"

\* Python floats, as exact rationals n / Den: exact for the numbers the
\* fragments compute.
Den(value) == IF value.p = <<>> THEN 1 ELSE value.p[1]
Abs(n) == IF n < 0 THEN 0 - n ELSE n
RECURSIVE GCD(_, _)
GCD(a, b) == IF b = 0 THEN a ELSE GCD(b, a % b)
\* The float n / d, d # 0.
Rational(n, d) ==
    LET g == GCD(Abs(n), Abs(d))
        num == (IF d < 0 THEN 0 - n ELSE n) \div g
        den == Abs(d) \div g
    IN IF den = 1 THEN Num(num) ELSE Fraction(num, den)

\* left / right of two floats: Python raises ZeroDivisionError for a zero
\* divisor.
TrueDiv(left, right) ==
    IF right.n = 0 THEN Err("ZeroDivisionError")
    ELSE Ok(Rational(left.n * Den(right), Den(left) * right.n))

\* The match of visit_binary_expr on the operator, after both operands.
BinaryOp(op, left, right) ==
    LET l == left.n * Den(right)
        r == right.n * Den(left)
    IN
    CASE op = "+" ->
           IF left.t = "float" /\ right.t = "float"
           THEN Ok(Rational(l + r, Den(left) * Den(right)))
           ELSE IF left.t = "str" /\ right.t = "str" THEN Ok(Str(left.s \o right.s))
           ELSE Err("TypeError")
      [] op = "-" ->
           IF AllFloat(<<left, right>>) THEN Ok(Rational(l - r, Den(left) * Den(right)))
           ELSE Err("TypeError")
      [] op = "*" ->
           IF AllFloat(<<left, right>>)
           THEN Ok(Rational(left.n * right.n, Den(left) * Den(right)))
           ELSE Err("TypeError")
      [] op = "/" ->
           IF AllFloat(<<left, right>>) THEN TrueDiv(left, right) ELSE Err("TypeError")
      [] op = ">" ->
           IF AllFloat(<<left, right>>) THEN Ok(Bool(l > r)) ELSE Err("TypeError")
      [] op = ">=" ->
           IF AllFloat(<<left, right>>) THEN Ok(Bool(l >= r)) ELSE Err("TypeError")
      [] op = "<" ->
           IF AllFloat(<<left, right>>) THEN Ok(Bool(l < r)) ELSE Err("TypeError")
      [] op = "<=" ->
           IF AllFloat(<<left, right>>) THEN Ok(Bool(l <= r)) ELSE Err("TypeError")
      [] op = "!=" -> Ok(Bool(~PyEq(left, right)))
      [] op = "==" -> Ok(Bool(PyEq(left, right)))
      [] OTHER -> Err("NotImplementedError")

\* The match of visit_unary_expr on the operator.
UnaryOp(op, right) ==
    CASE op = "-" ->
           IF AllFloat(<<right>>) THEN Ok([right EXCEPT !.n = 0 - @]) ELSE Err("TypeError")
      [] op = "!" -> Ok(Bool(~is_truthy(right)))
      [] OTHER -> Err("NotImplementedError")

(***************************************************************************)
(* Parser (pylox/parser.py).  Parser.parse is a loop over the top-level    *)
(* declarations; one call of parse_declaration by that loop is one step.   *)
(* The recursive-descent methods are operators on a parser state           *)
(*   pos     Tokens._current_position (0-based; tokens are 1-based here)   *)
(*   errors  Errors.errors, each error with its message and line           *)
(*   raised  a PyloxParseError is propagating                              *)
(*   done    the loop that is running has met its `break` or its end       *)
(*   node    the value the method returns                                  *)
(* The token alphabet is that of ParserSources: it has no operator, class, *)
(* for, if, while or return token, so parse_or .. parse_unary come down to *)
(* parse_call, and parse_declaration and parse_statement to the branches   *)
(* below.                                                                  *)
(***************************************************************************)
\* The largest number of statements of a parsed source.
MaxStatements == 2
\* The limit of parse_function and finish_call.
MaxArity == 255

Token(token_type, lexeme, literal, line) ==
    [token_type |-> token_type, lexeme |-> lexeme, literal |-> literal, line |-> line]
Sym(token_type, lexeme, line) == Token(token_type, lexeme, Nil, line)
Number(n, line) == Token("NUMBER", ToString(n), Num(n), line)
Identifier(name, line) == Token("IDENTIFIER", name, Nil, line)

(***************************************************************************)
(* The scanner (pylox/scanner.py).  A source text is the sequence of its   *)
(* characters; current_position counts from 0 as in the code.              *)
(***************************************************************************)
MaxSource == 3

\* The characters the scanned texts are made of.
Alphabet == {"1", ".", "o", "r", ";", "=", "/", " ", "\n", "\"", "@"}

SourceTexts == SeqsUpTo(Alphabet, MaxSource)

Digits == {"0", "1", "2", "3", "4", "5", "6", "7", "8", "9"}
Letters ==
    {"a", "b", "c", "d", "e", "f", "g", "h", "i", "j", "k", "l", "m",
     "n", "o", "p", "q", "r", "s", "t", "u", "v", "w", "x", "y", "z"}
Spaces == {" ", "\n", "\t", "\r"}
DigitValue ==
    [c \in Digits |->
        CASE c = "0" -> 0 [] c = "1" -> 1 [] c = "2" -> 2 [] c = "3" -> 3
          [] c = "4" -> 4 [] c = "5" -> 5 [] c = "6" -> 6 [] c = "7" -> 7
          [] c = "8" -> 8 [] c = "9" -> 9]

\* TokenType: the members with TokenTypeType.KEYWORD, the single-character
\* members and the one-or-two-character members.
Keywords ==
    {"and", "class", "else", "false", "fun", "for", "if", "nil", "or", "print",
     "return", "super", "this", "true", "var", "while"}
SingleCharacter ==
    [c \in {"(", ")", "{", "}", ",", ".", "-", "+", ";", "*"} |->
        CASE c = "(" -> "LEFT_PAREN" [] c = ")" -> "RIGHT_PAREN"
          [] c = "{" -> "LEFT_BRACE" [] c = "}" -> "RIGHT_BRACE"
          [] c = "," -> "COMMA" [] c = "." -> "DOT" [] c = "-" -> "MINUS"
          [] c = "+" -> "PLUS" [] c = ";" -> "SEMICOLON" [] c = "*" -> "STAR"]
MaybeMultiCharacter ==
    [c \in {"!", "=", "<", ">"} |->
        CASE c = "!" -> "BANG" [] c = "=" -> "EQUAL"
          [] c = "<" -> "LESS" [] c = ">" -> "GREATER"]

\* TokenType.from_keyword, IDENTIFIER for its ValueError.
from_keyword(text) ==
    IF text \in Keywords
    THEN CASE text = "and" -> "AND" [] text = "class" -> "CLASS"
           [] text = "else" -> "ELSE" [] text = "false" -> "FALSE"
           [] text = "fun" -> "FUN" [] text = "for" -> "FOR" [] text = "if" -> "IF"
           [] text = "nil" -> "NIL" [] text = "or" -> "OR" [] text = "print" -> "PRINT"
           [] text = "return" -> "RETURN" [] text = "super" -> "SUPER"
           [] text = "this" -> "THIS" [] text = "true" -> "TRUE"
           [] text = "var" -> "VAR" [] text = "while" -> "WHILE"
    ELSE "IDENTIFIER"

RECURSIVE Text(_)
\* The str made of the characters.
Text(chars) == IF chars = <<>> THEN "" ELSE Head(chars) \o Text(Tail(chars))

RECURSIVE DigitsValue(_, _)
\* The digits of chars read as one decimal numeral, after acc.
DigitsValue(chars, acc) ==
    IF chars = <<>> THEN acc
    ELSE DigitsValue(Tail(chars),
                     IF Head(chars) = "." THEN acc ELSE 10 * acc + DigitValue[Head(chars)])

RECURSIVE Pow10(_)
Pow10(n) == IF n = 0 THEN 1 ELSE 10 * Pow10(n - 1)

\* float(text) of digits with an optional fraction.
float(chars) ==
    LET dots == {j \in DOMAIN chars : chars[j] = "."}
        decimals == IF dots = {} THEN 0 ELSE Len(chars) - (CHOOSE j \in dots : TRUE)
    IN Rational(DigitsValue(chars, 0), Pow10(decimals))

\* Source(text)
Source(text) == [text |-> text, current_position |-> 0, lines_seen |-> 0]
Source_line(s) == s.lines_seen + 1
Source_is_at_end(s) == s.current_position >= Len(s.text)
\* Source.current_char and Source.peek; the callers below test the index
\* first and turn an index past the end into the IndexError.
Source_current_char(s) == s.text[s.current_position + 1]
Source_peek(s) == s.text[s.current_position + 2]
Source_check_next(s, char) ==
    IF s.current_position >= Len(s.text) \/ s.current_position + 1 >= Len(s.text)
    THEN FALSE
    ELSE Source_peek(s) = char
\* text[start : current_position]
Source_slice(s, start) == SubSeq(s.text, start + 1, s.current_position)

RECURSIVE Source_advance(_, _)
\* Source.advance(n); every call of the scanner stands on a character.
Source_advance(s, n) ==
    IF n = 0 THEN s
    ELSE Source_advance(
             [s EXCEPT !.current_position = @ + 1,
                       !.lines_seen = IF Source_current_char(s) = "\n" THEN @ + 1 ELSE @],
             n - 1)

RECURSIVE AdvanceWhile(_, _)
\* while self.source.current_char in class: self.source.advance(), up to the
\* end of the text, where current_char raises the IndexError.
AdvanceWhile(s, class) ==
    IF Source_is_at_end(s) \/ Source_current_char(s) \notin class THEN s
    ELSE AdvanceWhile(Source_advance(s, 1), class)

RECURSIVE AdvanceUntilNext(_, _)
\* while not (is_at_end or check_next(char)): advance()
AdvanceUntilNext(s, char) ==
    IF Source_is_at_end(s) \/ Source_check_next(s, char) THEN s
    ELSE AdvanceUntilNext(Source_advance(s, 1), char)

NoToken == Token("", "", Nil, 0)
NoScanError == [message |-> "", line |-> 0]

\* The ways _extract_token_and_advance ends, each with the Source as the
\* call left it.
Returns(s, token_type, lexeme, literal) ==
    [outcome |-> "return", source |-> s,
     token |-> Token(token_type, lexeme, literal, Source_line(s)), error |-> NoScanError]
Raises(s, cls, message) ==
    [outcome |-> cls, source |-> s, token |-> NoToken,
     error |-> [message |-> message, line |-> Source_line(s)]]

\* Scanner._comment
Scanner_comment(s) ==
    LET start == s.current_position
        s1 == AdvanceUntilNext(s, "\n")
        s2 == IF Source_is_at_end(s1) THEN s1 ELSE Source_advance(s1, 1)
    IN Returns(s2, "COMMENT", Text(Source_slice(s2, start)), Nil)

\* Scanner._string
Scanner_string(s) ==
    LET start == s.current_position
        s1 == AdvanceUntilNext(s, "\"")
        s2 == Source_advance(s1, 2)
        text == Source_slice(s2, start)
    IN IF Source_is_at_end(s1)
       THEN Raises(s1, "PyloxScanError", "Unterminated string.")
       ELSE Returns(s2, "STRING", Text(text), Str(Text(SubSeq(text, 2, Len(text) - 1))))

\* Scanner._number
Scanner_number(s) ==
    LET start == s.current_position
        s1 == AdvanceWhile(s, Digits)
        s2 == AdvanceWhile(Source_advance(s1, 1), Digits)
    IN IF Source_is_at_end(s1) THEN Raises(s1, "IndexError", "")
       ELSE IF Source_current_char(s1) # "."
       THEN Returns(s1, "NUMBER", Text(Source_slice(s1, start)), float(Source_slice(s1, start)))
       ELSE IF s1.current_position + 1 >= Len(s1.text) THEN Raises(s1, "IndexError", "")
       ELSE IF Source_peek(s1) \notin Digits
       THEN Returns(s1, "NUMBER", Text(Source_slice(s1, start)), float(Source_slice(s1, start)))
       ELSE IF Source_is_at_end(s2) THEN Raises(s2, "IndexError", "")
       ELSE Returns(s2, "NUMBER", Text(Source_slice(s2, start)), float(Source_slice(s2, start)))

\* Scanner._identifier
Scanner_identifier(s) ==
    LET start == s.current_position
        s1 == AdvanceWhile(s, Letters \cup Digits \cup {"_"})
        text == Text(Source_slice(s1, start))
    IN IF Source_is_at_end(s1) THEN Raises(s1, "IndexError", "")
       ELSE Returns(s1, from_keyword(text), text, Nil)

\* Scanner._extract_token_and_advance
extract_token_and_advance(s) ==
    IF Source_is_at_end(s) THEN Raises(s, "IndexError", "")
    ELSE LET c == Source_current_char(s)
             one == Source_advance(s, 1)
             spaces == AdvanceWhile(s, Spaces)
         IN CASE c \in DOMAIN SingleCharacter -> Returns(one, SingleCharacter[c], c, Nil)
              [] c \in DOMAIN MaybeMultiCharacter ->
                   IF Source_check_next(s, "=")
                   THEN Returns(Source_advance(s, 2), MaybeMultiCharacter[c] \o "_EQUAL",
                                c \o "=", Nil)
                   ELSE Returns(one, MaybeMultiCharacter[c], c, Nil)
              [] c = "/" ->
                   IF Source_check_next(s, "/") THEN Scanner_comment(s)
                   ELSE Returns(one, "SLASH", c, Nil)
              [] c \in Spaces ->
                   IF Source_is_at_end(spaces) THEN Raises(spaces, "IndexError", "")
                   ELSE Raises(spaces, "WhiteSpaceError", "")
              [] c = "\"" -> Scanner_string(s)
              [] c \in Digits -> Scanner_number(s)
              [] c \in Letters \cup {"_"} -> Scanner_identifier(s)
              [] OTHER -> Raises(s, "PyloxScanError", "Unexpected character: " \o c)

\* Scanner.from_source(source) with the local `tokens` of scan_tokens; state
\* tells whether scan_tokens is in its loop, has returned tokens or has let
\* the PyloxScanError in `error` through.
Scanner_from_source(text) ==
    [source |-> Source(text), tokens |-> <<>>, state |-> "scanning", error |-> NoScanError]
NoScanner == [Scanner_from_source(<<>>) EXCEPT !.state = "none"]

\* One turn of the loop of Scanner.scan_tokens.
scan_tokens_turn(sc) ==
    LET r == extract_token_and_advance(sc.source) IN
    CASE r.outcome = "return" ->
           [sc EXCEPT !.source = r.source, !.tokens = Append(@, r.token)]
      [] r.outcome = "WhiteSpaceError" -> [sc EXCEPT !.source = r.source]
      [] r.outcome = "IndexError" ->
           [sc EXCEPT !.source = r.source, !.state = "returned",
                      !.tokens = Append(@, Token("EOF", "", Nil, Source_line(r.source)))]
      [] r.outcome = "PyloxScanError" ->
           [sc EXCEPT !.source = r.source, !.state = "raised", !.error = r.error]

RECURSIVE Scanner_scan_tokens(_)
\* Scanner.scan_tokens from the scanner sc on.
Scanner_scan_tokens(sc) ==
    IF sc.state # "scanning" THEN sc ELSE Scanner_scan_tokens(scan_tokens_turn(sc))

\* n items separated by commas.
CommaSeparated(n, item, line) ==
    [j \in 1..(2 * n - 1) |-> IF j % 2 = 1 THEN item ELSE Sym("COMMA", ",", line)]

\* The statements sources are made of; each stands on a line of its own.
Statement(name, n) == [name |-> name, n |-> n, lexemes |-> <<>>]
\* An expression statement, given by its lexemes.
ExpressionStatement(lexemes) == [name |-> "expression", n |-> 0, lexemes |-> lexemes]
GoodStatements == {Statement(name, 0) : name \in {"print", "var", "call", "block", "fun", "assign"}}
BadStatements == {Statement(name, 0) : name \in {"var_noname", "print_nothing", "bad_target", "block_var_noname"}}
ArityStatements ==
    {Statement(name, n) : name \in {"fun_n", "call_n"}, n \in (MaxArity - 1)..(MaxArity + 2)}

MaxOperators == 3

\* The lexemes of the expression statements, each the sequence of its
\* characters.
BinaryOperators ==
    { <<"o", "r">>, <<"a", "n", "d">>, <<"=", "=">>, <<"!", "=">>, <<"<">>, <<">", "=">>,
      <<"+">>, <<"-">>, <<"*">>, <<"/">> }
UnaryOperators == { <<"!">>, <<"-">> }
\* The j-th operand of an expression: the number j.
Operand(j) == << ToString(j) >>

RECURSIVE ChainsOf(_)
\* operand (operator operand)* with k operators
ChainsOf(k) ==
    IF k = 0 THEN {<< Operand(1) >>}
    ELSE {c \o << op, Operand(k + 1) >> : c \in ChainsOf(k - 1), op \in BinaryOperators}

\* Expressions with a unary operator or a parenthesised operand.
UnaryForms ==
    {<< u >> \o c : u \in UnaryOperators, c \in ChainsOf(1)}
    \cup {<< Operand(1), op, u, Operand(2) >> : op \in BinaryOperators, u \in UnaryOperators}
    \cup {<< u, v, <<"t", "r", "u", "e">> >> : u \in UnaryOperators, v \in UnaryOperators}
GroupingForms ==
    {<< <<"(">>, Operand(1), op, Operand(2), <<")">>, inner, Operand(3) >> :
        op \in BinaryOperators, inner \in BinaryOperators}
    \cup {<< Operand(1), op, <<"(">>, Operand(2), inner, Operand(3), <<")">> >> :
              op \in BinaryOperators, inner \in BinaryOperators}
    \cup {<< u, <<"(">>, Operand(1), op, Operand(2), <<")">> >> :
              u \in UnaryOperators, op \in BinaryOperators}

Expressions ==
    UNION {ChainsOf(k) : k \in 1..MaxOperators} \cup UnaryForms \cup GroupingForms

\* The left-hand sides of the assignments: a variable, a property access,
\* and expressions that are neither; `kind` is the class of the node the
\* left-hand side parses to.
AssignmentTargets ==
    { [kind |-> "VarExpr", lexemes |-> << <<"a">> >>],
      [kind |-> "GetExpr", lexemes |-> << <<"a">>, <<".">>, <<"b">> >>],
      [kind |-> "GetExpr", lexemes |-> << <<"f">>, <<"(">>, <<")">>, <<".">>, <<"b">> >>],
      [kind |-> "LiteralExpr", lexemes |-> << <<"1">> >>],
      [kind |-> "LiteralExpr", lexemes |-> << <<"n", "i", "l">> >>],
      [kind |-> "GroupingExpr", lexemes |-> << <<"(">>, <<"a">>, <<")">> >>],
      [kind |-> "BinaryExpr", lexemes |-> << <<"a">>, <<"+">>, <<"b">> >>],
      [kind |-> "LogicalExpr", lexemes |-> << <<"a">>, <<"o", "r">>, <<"b">> >>],
      [kind |-> "UnaryExpr", lexemes |-> << <<"-">>, <<"a">> >>],
      [kind |-> "CallExpr", lexemes |-> << <<"f">>, <<"(">>, <<")">> >>],
      [kind |-> "ThisExpr", lexemes |-> << <<"t", "h", "i", "s">> >>] }

\* The right-hand sides: a value, and an assignment in turn.
AssignmentValues ==
    { << <<"c">> >>,
      << <<"b">>, <<"=">>, <<"c">> >>,
      << <<"b">>, <<".">>, <<"c">>, <<"=">>, <<"1">> >> }

\* target = value with the `=` on the same line as the target or on the
\* next, and the value on the line of the `=` or on the next.
Assignments ==
    {target.lexemes \o before \o << <<"=">> >> \o after \o value :
        target \in AssignmentTargets, value \in AssignmentValues,
        before \in {<<>>, << <<"\n">> >>}, after \in {<<>>, << <<"\n">> >>}}

ExpressionStatements == {ExpressionStatement(e) : e \in Expressions \cup Assignments}

RECURSIVE SourceText(_)
\* The text of the lexemes, a blank behind each.
SourceText(lexemes) ==
    IF lexemes = <<>> THEN <<>> ELSE Head(lexemes) \o <<" ">> \o SourceText(Tail(lexemes))

\* Scanner.scan_tokens on the text of an expression statement that stands
\* on the given line, without the EOF token.
ExpressionTokens(lexemes, line) ==
    LET text == [j \in 1..(line - 1) |-> "\n"] \o SourceText(lexemes) \o <<";">>
        tokens == Scanner_scan_tokens(Scanner_from_source(text)).tokens
    IN SubSeq(tokens, 1, Len(tokens) - 1)

\* Scanner.scan_tokens on one statement.
StatementTokens(s, line) ==
    LET print1 == << Sym("PRINT", "print", line), Number(1, line), Sym("SEMICOLON", ";", line) >>
        var_noname == << Sym("VAR", "var", line), Sym("EQUAL", "=", line), Number(1, line),
                         Sym("SEMICOLON", ";", line) >>
    IN
    CASE s.name = "expression" -> ExpressionTokens(s.lexemes, line)
      [] s.name = "print" -> print1                          \* print 1;
      [] s.name = "var" ->                                   \* var a = 1;
           << Sym("VAR", "var", line), Identifier("a", line), Sym("EQUAL", "=", line),
              Number(1, line), Sym("SEMICOLON", ";", line) >>
      [] s.name = "call" ->                                  \* f(1)(2);
           << Identifier("f", line), Sym("LEFT_PAREN", "(", line), Number(1, line),
              Sym("RIGHT_PAREN", ")", line), Sym("LEFT_PAREN", "(", line), Number(2, line),
              Sym("RIGHT_PAREN", ")", line), Sym("SEMICOLON", ";", line) >>
      [] s.name = "block" ->                                 \* { print 1; }
           << Sym("LEFT_BRACE", "{", line) >> \o print1 \o << Sym("RIGHT_BRACE", "}", line) >>
      [] s.name = "fun" ->                                   \* fun f() { print 1; }
           << Sym("FUN", "fun", line), Identifier("f", line), Sym("LEFT_PAREN", "(", line),
              Sym("RIGHT_PAREN", ")", line), Sym("LEFT_BRACE", "{", line) >>
           \o print1 \o << Sym("RIGHT_BRACE", "}", line) >>
      [] s.name = "assign" ->                                \* a = (1);
           << Identifier("a", line), Sym("EQUAL", "=", line), Sym("LEFT_PAREN", "(", line),
              Number(1, line), Sym("RIGHT_PAREN", ")", line), Sym("SEMICOLON", ";", line) >>
      [] s.name = "var_noname" -> var_noname                 \* var = 1;
      [] s.name = "print_nothing" ->                         \* print ;
           << Sym("PRINT", "print", line), Sym("SEMICOLON", ";", line) >>
      [] s.name = "bad_target" ->                            \* (a) = 1;
           << Sym("LEFT_PAREN", "(", line), Identifier("a", line), Sym("RIGHT_PAREN", ")", line),
              Sym("EQUAL", "=", line), Number(1, line), Sym("SEMICOLON", ";", line) >>
      [] s.name = "block_var_noname" ->                      \* { var = 1; }
           << Sym("LEFT_BRACE", "{", line) >> \o var_noname \o << Sym("RIGHT_BRACE", "}", line) >>
      [] s.name = "fun_n" ->                                 \* fun f(a, .., a) { }
           << Sym("FUN", "fun", line), Identifier("f", line), Sym("LEFT_PAREN", "(", line) >>
           \o CommaSeparated(s.n, Identifier("a", line), line)
           \o << Sym("RIGHT_PAREN", ")", line), Sym("LEFT_BRACE", "{", line),
                 Sym("RIGHT_BRACE", "}", line) >>
      [] s.name = "call_n" ->                                \* f(1, .., 1);
           << Identifier("f", line), Sym("LEFT_PAREN", "(", line) >>
           \o CommaSeparated(s.n, Number(1, line), line)
           \o << Sym("RIGHT_PAREN", ")", line), Sym("SEMICOLON", ";", line) >>

RECURSIVE ScanFrom(_, _)
ScanFrom(source, line) ==
    IF line > Len(source) THEN << Sym("EOF", "", line) >>
    ELSE StatementTokens(source[line], line) \o ScanFrom(source, line + 1)

\* Scanner.scan_tokens: the tokens of the source, the EOF token last.
scan_tokens(source) == ScanFrom(source, 1)

\* The sources parsed: up to MaxStatements statements, the declarations and
\* calls around the arity limit, each followed by a print statement, and the
\* expression statements, the assignments also behind a print statement.
ParserSources ==
    (SeqsUpTo(GoodStatements \cup BadStatements, MaxStatements) \ {<<>>})
    \cup {<< s, Statement("print", 0) >> : s \in ArityStatements}
    \cup {<< s >> : s \in ExpressionStatements}
    \cup {<< Statement("print", 0), s >> : s \in {ExpressionStatement(e) : e \in Assignments}}

\* Tokens
current_token(ts, pos) == ts[pos + 1]
previous_token(ts, pos) == ts[pos]

\* The IndexError of current_token past the last token counts as the end.
is_at_end(ts, pos) ==
    IF pos + 1 \in DOMAIN ts THEN current_token(ts, pos).token_type = "EOF" ELSE TRUE

check_token_type(ts, pos, token_type) ==
    IF is_at_end(ts, pos) THEN FALSE ELSE current_token(ts, pos).token_type = token_type

advance(p) == [p EXCEPT !.pos = @ + 1]

\* Errors.record(PyloxParseError.from_token(token, message))
record(p, message, token) ==
    [p EXCEPT !.errors = Append(@, [message |-> message, line |-> token.line])]

\* raise self.errors.record(...)
RaiseParseError(p, message, token) == [record(p, message, token) EXCEPT !.raised = TRUE]

\* Tokens.consume; the token consumed is previous_token afterwards.
consume(ts, p, token_type, message) ==
    IF check_token_type(ts, p.pos, token_type) THEN advance(p)
    ELSE RaiseParseError(p, message, current_token(ts, p.pos))

\* The statement after one that raised is not executed: the consume that
\* follows a call whose error propagates.
then_consume(ts, p, token_type, message) ==
    IF p.raised THEN p ELSE consume(ts, p, token_type, message)

RECURSIVE synchronize_loop(_, _)
synchronize_loop(ts, p) ==
    IF is_at_end(ts, p.pos) THEN p
    ELSE IF previous_token(ts, p.pos).token_type = "SEMICOLON" THEN p
    ELSE IF current_token(ts, p.pos).token_type \in
                {"CLASS", "FUN", "VAR", "FOR", "IF", "WHILE", "PRINT", "RETURN"} THEN p
    ELSE synchronize_loop(ts, advance(p))

\* Parser.synchronize
synchronize(ts, p) == synchronize_loop(ts, advance(p))

RECURSIVE Parse(_, _, _, _)

\* Parser.parse_declaration: an error of the declaration is recorded once
\* more, the parser synchronises, and the error is raised again.
parse_declaration(ts, p) ==
    LET r == IF check_token_type(ts, p.pos, "FUN")
             THEN Parse("parse_function", ts, advance(p), <<>>)
             ELSE IF check_token_type(ts, p.pos, "VAR")
                  THEN Parse("parse_var", ts, advance(p), <<>>)
                  ELSE Parse("parse_statement", ts, p, <<>>)
    IN IF r.raised
       THEN synchronize(ts, [r EXCEPT !.errors = Append(@, r.errors[Len(r.errors)])])
       ELSE r

\* `n` turns of the loop whose body is `method`, fewer if the body breaks
\* (done) or raises.
Loop(method, ts, p, n) ==
    IF p.raised \/ p.done THEN p
    ELSE IF n <= 1 THEN Parse(method, ts, p, <<>>)
    ELSE Parse("Loop", ts, Parse("Loop", ts, p, <<method, n \div 2>>), <<method, n - n \div 2>>)

\* A `while` loop with the body `method` that starts with the empty list: a
\* turn that goes on consumes a token, so there are at most Len(ts) turns.
While(method, ts, p) ==
    [Loop(method, ts, [p EXCEPT !.node = <<>>, !.done = FALSE], Len(ts)) EXCEPT !.done = FALSE]

\* One turn of the `while True` of parse_function; p.node is `parameters`.
parameter(ts, p) ==
    LET p1 == IF Len(p.node) >= MaxArity
              THEN record(p, "Cannot have more than 255 parameters.", current_token(ts, p.pos))
              ELSE p
        p2 == consume(ts, p1, "IDENTIFIER", "Expect parameter name.")
        more == Append(p.node, previous_token(ts, p2.pos).lexeme)
    IN IF p2.raised THEN p2
       ELSE IF check_token_type(ts, p2.pos, "COMMA")
            THEN [advance(p2) EXCEPT !.node = more]
            ELSE [p2 EXCEPT !.node = more, !.done = TRUE]

\* parse_function from `parameters: list[Token] = []` to the end of its `if`.
parameters(ts, p) ==
    IF ~check_token_type(ts, p.pos, "RIGHT_PAREN")
    THEN While("parameter", ts, p)
    ELSE [p EXCEPT !.node = <<>>]

\* Parser.parse_function(FunctionType.FUNCTION)
parse_function(ts, p) ==
    LET p1 == consume(ts, p, "IDENTIFIER", "Expect function name.")
        p2 == then_consume(ts, p1, "LEFT_PAREN", "Expect '(' after function name.")
        p3 == Parse("parameters", ts, p2, <<>>)
        p4 == then_consume(ts, p3, "RIGHT_PAREN", "Expect ')' after parameters.")
        p5 == then_consume(ts, p4, "LEFT_BRACE", "Expect '{' before function body.")
        p6 == Parse("parse_block", ts, p5, <<>>)
    IN IF p6.raised THEN p6
       ELSE [p6 EXCEPT !.node = FunStmt(previous_token(ts, p1.pos).lexeme, p3.node, p6.node)]

\* The `initializer = ...` of parse_var.
initializer(ts, p) ==
    IF check_token_type(ts, p.pos, "EQUAL")
    THEN Parse("parse_expression", ts, advance(p), <<>>)
    ELSE [p EXCEPT !.node = NoneNode]

\* Parser.parse_var
parse_var(ts, p) ==
    LET p1 == consume(ts, p, "IDENTIFIER", "Expect variable name.")
        p2 == Parse("initializer", ts, p1, <<>>)
        p3 == then_consume(ts, p2, "SEMICOLON", "Expect ';' after variable declaration.")
    IN IF p3.raised THEN p3
       ELSE [p3 EXCEPT !.node = VarStmt(previous_token(ts, p1.pos).lexeme, p2.node)]

\* Parser.parse_statement
parse_statement(ts, p) ==
    IF check_token_type(ts, p.pos, "PRINT") THEN Parse("parse_print", ts, advance(p), <<>>)
    ELSE IF check_token_type(ts, p.pos, "LEFT_BRACE")
         THEN LET r == Parse("parse_block", ts, advance(p), <<>>) IN
              IF r.raised THEN r ELSE [r EXCEPT !.node = BlockStmt(r.node)]
         ELSE Parse("parse_expression_statement", ts, p, <<>>)

\* Parser.parse_print
parse_print(ts, p) ==
    LET p1 == Parse("parse_expression", ts, p, <<>>)
        p2 == then_consume(ts, p1, "SEMICOLON", "Expect ';' after value.")
    IN IF p2.raised THEN p2 ELSE [p2 EXCEPT !.node = PrintStmt(p1.node)]

\* The `while` of parse_block; the result's node is the statements.
parse_block_loop(ts, p, result) ==
    IF ~check_token_type(ts, p.pos, "RIGHT_BRACE") /\ ~is_at_end(ts, p.pos)
    THEN LET r == Parse("parse_declaration", ts, p, <<>>) IN
         IF r.raised THEN r ELSE Parse("parse_block_loop", ts, r, Append(result, r.node))
    ELSE [p EXCEPT !.node = result]

\* Parser.parse_block
parse_block(ts, p) ==
    LET p1 == Parse("parse_block_loop", ts, p, <<>>)
        p2 == IF p1.raised THEN p1
              ELSE consume(ts, p1, "RIGHT_BRACE",
                           "Expect '}' after block on token: "
                               \o current_token(ts, p1.pos).lexeme \o ".")
    IN IF p2.raised THEN p2 ELSE [p2 EXCEPT !.node = p1.node]

\* Parser.parse_expression_statement
parse_expression_statement(ts, p) ==
    LET p1 == Parse("parse_expression", ts, p, <<>>)
        p2 == then_consume(ts, p1, "SEMICOLON", "Expect ';' after expression.")
    IN IF p2.raised THEN p2 ELSE [p2 EXCEPT !.node = ExprStmt(p1.node)]

\* Parser.parse_expression
parse_expression(ts, p) == Parse("parse_assignment", ts, p, <<>>)

\* isinstance(expr, cls) for a node class, with every node for an instance.
isinstance_of_any(expr, cls) == TRUE

\* isinstance(expr, cls) for a node class.
isinstance(expr, cls) == expr.k = cls

\* Parser.parse_assignment
parse_assignment(ts, p) ==
    LET p1 == Parse("parse_or", ts, p, <<>>) IN
    IF p1.raised \/ ~check_token_type(ts, p1.pos, "EQUAL") THEN p1
    ELSE LET equals == current_token(ts, p1.pos)
             p2 == Parse("parse_assignment", ts, advance(p1), <<>>)
         IN IF p2.raised THEN p2
            ELSE IF isinstance(p1.node, "VarExpr")
                 THEN [p2 EXCEPT !.node = AssignExpr(p1.node.name, p2.node)]
                 ELSE IF isinstance(p1.node, "GetExpr")
                 THEN [p2 EXCEPT !.node = SetExpr(p1.node.kids[1], p1.node.name, p2.node)]
                 ELSE RaiseParseError(p2, "Invalid assignment target.", equals)

\* The token types a binary level of the grammar matches in its loop.
LevelOperators(method) ==
    CASE method = "parse_or" -> {"OR"}
      [] method = "parse_and" -> {"AND"}
      [] method = "parse_equality" -> {"BANG_EQUAL", "EQUAL_EQUAL"}
      [] method = "parse_comparison" -> {"GREATER", "GREATER_EQUAL", "LESS", "LESS_EQUAL"}
      [] method = "parse_term" -> {"MINUS", "PLUS"}
      [] method = "parse_factor" -> {"SLASH", "STAR"}

\* The method a binary level parses its operands with: the level that
\* binds tighter.
NextLevel(method) ==
    CASE method = "parse_or" -> "parse_and"
      [] method = "parse_and" -> "parse_equality"
      [] method = "parse_equality" -> "parse_comparison"
      [] method = "parse_comparison" -> "parse_term"
      [] method = "parse_term" -> "parse_factor"
      [] method = "parse_factor" -> "parse_unary"

\* The method a binary level would parse its right operands with, were it
\* the method of the level itself.
RightOperand_same_level(method) == method

\* The method a binary level parses the right operand of its loop with.
RightOperand(method) == NextLevel(method)

\* The `while self.tokens.advance_if_match(...)` of a binary level;
\* p.node is `expr`.
binary_loop(ts, p, method) ==
    IF current_token(ts, p.pos).token_type \in LevelOperators(method)
    THEN LET operator == current_token(ts, p.pos)
             r == Parse(RightOperand(method), ts, advance(p), <<>>)
         IN IF r.raised THEN r
            ELSE Parse("binary_loop", ts,
                       [r EXCEPT !.node = IF method \in {"parse_or", "parse_and"}
                                          THEN LogicalExpr(p.node, operator.lexeme, r.node)
                                          ELSE BinaryExpr(p.node, operator.lexeme, r.node)],
                       method)
    ELSE p

\* Parser.parse_or, parse_and, parse_equality, parse_comparison, parse_term
\* and parse_factor: the left operand, then the loop.
parse_binary(ts, p, method) ==
    Parse("binary_loop", ts, Parse(NextLevel(method), ts, p, <<>>), method)
parse_or(ts, p) == parse_binary(ts, p, "parse_or")
parse_and(ts, p) == parse_binary(ts, p, "parse_and")
parse_equality(ts, p) == parse_binary(ts, p, "parse_equality")
parse_comparison(ts, p) == parse_binary(ts, p, "parse_comparison")
parse_term(ts, p) == parse_binary(ts, p, "parse_term")
parse_factor(ts, p) == parse_binary(ts, p, "parse_factor")

\* Parser.parse_unary
parse_unary(ts, p) ==
    IF current_token(ts, p.pos).token_type \in {"BANG", "MINUS"}
    THEN LET r == Parse("parse_unary", ts, advance(p), <<>>) IN
         IF r.raised THEN r
         ELSE [r EXCEPT !.node = UnaryExpr(current_token(ts, p.pos).lexeme, r.node)]
    ELSE Parse("parse_call", ts, p, <<>>)

\* The `while True` of parse_call; p.node is the expression so far.
parse_call_loop(ts, p) ==
    IF check_token_type(ts, p.pos, "LEFT_PAREN")
    THEN LET r == Parse("finish_call", ts, advance(p), p.node) IN
         IF r.raised THEN r ELSE Parse("parse_call_loop", ts, r, <<>>)
    ELSE IF check_token_type(ts, p.pos, "DOT")
    THEN LET r == consume(ts, advance(p), "IDENTIFIER", "Expect property name after '.'.") IN
         IF r.raised THEN r
         ELSE Parse("parse_call_loop", ts,
                    [r EXCEPT !.node = GetExpr(p.node, previous_token(ts, r.pos).lexeme)], <<>>)
    ELSE p

\* Parser.parse_call
parse_call(ts, p) ==
    LET p1 == Parse("parse_primary", ts, p, <<>>) IN
    IF p1.raised THEN p1 ELSE Parse("parse_call_loop", ts, p1, <<>>)

\* Parser.parse_primary.  The message of its error names the tokens around;
\* the current token's lexeme stands for them.
parse_primary(ts, p) ==
    IF check_token_type(ts, p.pos, "FALSE")
    THEN [advance(p) EXCEPT !.node = LiteralExpr(Bool(FALSE))]
    ELSE IF check_token_type(ts, p.pos, "TRUE")
    THEN [advance(p) EXCEPT !.node = LiteralExpr(Bool(TRUE))]
    ELSE IF check_token_type(ts, p.pos, "NIL")
    THEN [advance(p) EXCEPT !.node = LiteralExpr(Nil)]
    ELSE IF check_token_type(ts, p.pos, "NUMBER") \/ check_token_type(ts, p.pos, "STRING")
    THEN [advance(p) EXCEPT !.node = LiteralExpr(current_token(ts, p.pos).literal)]
    ELSE IF check_token_type(ts, p.pos, "SUPER")
    THEN LET p1 == consume(ts, advance(p), "DOT", "Expect '.' after 'super'.")
             p2 == then_consume(ts, p1, "IDENTIFIER", "Expect superclass method name.")
         IN IF p2.raised THEN p2
            ELSE [p2 EXCEPT !.node = SuperExpr(previous_token(ts, p2.pos).lexeme)]
    ELSE IF check_token_type(ts, p.pos, "THIS")
    THEN [advance(p) EXCEPT !.node = ThisExpr]
    ELSE IF check_token_type(ts, p.pos, "IDENTIFIER")
    THEN [advance(p) EXCEPT !.node = VarExpr(current_token(ts, p.pos).lexeme)]
    ELSE IF check_token_type(ts, p.pos, "LEFT_PAREN")
    THEN LET p1 == Parse("parse_expression", ts, advance(p), <<>>)
             p2 == then_consume(ts, p1, "RIGHT_PAREN", "Expect ')' after expression.")
         IN IF p2.raised THEN p2 ELSE [p2 EXCEPT !.node = GroupingExpr(p1.node)]
    ELSE RaiseParseError(p, "Expect expression on " \o current_token(ts, p.pos).lexeme \o ".",
                         current_token(ts, p.pos))

\* One turn of the `while` of finish_call; p.node is `arguments`.
argument(ts, p) ==
    IF check_token_type(ts, p.pos, "RIGHT_PAREN") THEN [p EXCEPT !.done = TRUE]
    ELSE IF Len(p.node) >= MaxArity
    THEN RaiseParseError(p, "Cannot have more than 255 arguments.", current_token(ts, p.pos))
    ELSE LET p1 == Parse("parse_expression", ts, p, <<>>) IN
         IF p1.raised THEN p1
         ELSE IF check_token_type(ts, p1.pos, "COMMA")
              THEN [advance(p1) EXCEPT !.node = Append(p.node, p1.node)]
              ELSE [p1 EXCEPT !.node = Append(p.node, p1.node), !.done = TRUE]

\* Parser.finish_call
finish_call(ts, p, callee) ==
    LET p1 == While("argument", ts, p)
        p2 == then_consume(ts, p1, "RIGHT_PAREN", "Expect ')' after arguments.")
    IN IF p2.raised THEN p2 ELSE [p2 EXCEPT !.node = CallExpr(callee, p1.node)]

\* A call of a method of the Parser by another: `arg` is the method's third
\* argument, if it has one.  The call is not made when an error propagates.
Parse(method, ts, p, arg) ==
    IF p.raised THEN p ELSE
    CASE method = "parameters" -> parameters(ts, p)
      [] method = "initializer" -> initializer(ts, p)
      [] method = "parse_declaration" -> parse_declaration(ts, p)
      [] method = "Loop" -> Loop(arg[1], ts, p, arg[2])
      [] method = "parameter" -> parameter(ts, p)
      [] method = "argument" -> argument(ts, p)
      [] method = "parse_function" -> parse_function(ts, p)
      [] method = "parse_var" -> parse_var(ts, p)
      [] method = "parse_statement" -> parse_statement(ts, p)
      [] method = "parse_print" -> parse_print(ts, p)
      [] method = "parse_block_loop" -> parse_block_loop(ts, p, arg)
      [] method = "parse_block" -> parse_block(ts, p)
      [] method = "parse_expression_statement" -> parse_expression_statement(ts, p)
      [] method = "parse_expression" -> parse_expression(ts, p)
      [] method = "parse_assignment" -> parse_assignment(ts, p)
      [] method = "binary_loop" -> binary_loop(ts, p, arg)
      [] method = "parse_or" -> parse_or(ts, p)
      [] method = "parse_and" -> parse_and(ts, p)
      [] method = "parse_equality" -> parse_equality(ts, p)
      [] method = "parse_comparison" -> parse_comparison(ts, p)
      [] method = "parse_term" -> parse_term(ts, p)
      [] method = "parse_factor" -> parse_factor(ts, p)
      [] method = "parse_unary" -> parse_unary(ts, p)
      [] method = "parse_call_loop" -> parse_call_loop(ts, p)
      [] method = "parse_call" -> parse_call(ts, p)
      [] method = "parse_primary" -> parse_primary(ts, p)
      [] method = "finish_call" -> finish_call(ts, p, arg)

\* The parser of the interpreter's runs: the parse is over and has given
\* the program.
NoParser ==
    [source |-> <<>>, tokens |-> <<>>, position |-> 0, errors |-> <<>>,
     statements |-> <<>>, state |-> "returned"]

\* Parser.from_source(source, errors)
Parser_from_source(source) ==
    [source |-> source, tokens |-> scan_tokens(source), position |-> 0, errors |-> <<>>,
     statements |-> <<>>, state |-> "parsing"]

(***************************************************************************)
(* The state.                                                              *)
(*   prog      the program under test (its AST is ProgramTable[prog])      *)
(*   resolver  the Resolver's state after its pass                         *)
(*   locals    Interpreter._locals.data                                    *)
(*   envs      the heap of environments; envs[GlobalEnv] is global_env     *)
(*   env       Interpreter._env                                            *)
(*   console   Interpreter.test_console                                    *)
(*   kont      the Python call stack: the suspended visit_* calls, the     *)
(*             env_scope context managers and the LoxFunction calls        *)
(*   mode      "start"    nothing has run                                  *)
(*             "resolved" Resolver.resolve has returned                    *)
(*             "resolver_error" Resolver.resolve has raised                *)
(*             "visit"    visit_node is called on the node at `cur`        *)
(*             "call"     func(self, *args) is called by the CallExpr on   *)
(*                        top of kont                                      *)
(*             "ret"      a call has returned `val` to the top of kont     *)
(*             "raise"    the exception `exc` propagates through kont      *)
(*             "done"     Interpreter.interpret has returned               *)
(*             "error"    Interpreter.interpret has raised `exc`           *)
(*   visited   the nodes visit_node has been called on so far (a history,  *)
(*             not state of the code)                                      *)
(*   parser    the Parser: its source and tokens, Tokens._current_position,*)
(*             Errors.errors, the statements parse has collected, and      *)
(*             whether parse is running, has returned or has raised        *)
(*   scanner   the Scanner: its Source (text, _current_position,           *)
(*             _lines_seen), the tokens scan_tokens has collected, whether *)
(*             scan_tokens is running, has returned or has raised, and the *)
(*             PyloxScanError it raised                                    *)
(***************************************************************************)
VARIABLES scanner, parser, prog, resolver, locals, envs, env, console, kont, mode,
          cur, val, exc, visited

vars == <<scanner, parser, prog, resolver, locals, envs, env, console, kont, mode,
          cur, val, exc, visited>>

Root == ProgramTable[prog]
At(path) == NodeAt(Root, path)

NoExc == [cls |-> "", message |-> "", val |-> Nil]
Exception(cls, message) == [cls |-> cls, message |-> message, val |-> Nil]
\* errors.PyloxReturn
PyloxReturn(value) == [cls |-> "PyloxReturn", message |-> "", val |-> value]

\* A suspended call: f names the function, path the node it visits, s and i
\* its position, vals the values it holds, fn the callee of a call, old and
\* new the old_env and env of env_scope.
Frame(f, path, s) ==
    [f |-> f, path |-> path, s |-> s, i |-> 0, vals |-> <<>>, fn |-> Nil,
     old |-> NoEnv, new |-> NoEnv]

Top == kont[Len(kont)]
Pop == SubSeq(kont, 1, Len(kont) - 1)
Push(frame) == Append(kont, frame)
ReplaceTop(frame) == Append(Pop, frame)

Go(m, c, v, x, k) == mode' = m /\ cur' = c /\ val' = v /\ exc' = x /\ kont' = k
\* visit_node(node, self) on the node at `path`, with call stack k.
Visit(path, k) == Go("visit", path, Nil, NoExc, k) /\ visited' = visited \cup {path}
\* return v to the call on top of k.
Return(v, k) == Go("ret", <<>>, v, NoExc, k) /\ UNCHANGED visited
\* raise x inside the call on top of k.
Raise(x, k) == Go("raise", <<>>, Nil, x, k) /\ UNCHANGED visited

Entering(k) == mode = "visit" /\ At(cur).k = k
Resuming(f) == mode = "ret" /\ kont # <<>> /\ Top.f = f

\* Interpreter(global_env=EnvironmentWithBuiltins()) and Resolver(interpreter).
Init ==
    /\ scanner = NoScanner
    /\ parser = NoParser
    /\ prog \in Programs
    /\ resolver = ResolverInit
    /\ locals = EmptyMap
    /\ envs = Environment_define(<<Environment(NoEnv, <<>>)>>, GlobalEnv, "clock", Clock)
    /\ env = GlobalEnv
    /\ console = <<>>
    /\ kont = <<>>
    /\ mode = "start"
    /\ cur = <<>>
    /\ val = Nil
    /\ exc = NoExc
    /\ visited = {}

\* Resolver.resolve(*statements), as the tests' fixture calls it before
\* Interpreter.interpret.
resolve ==
    /\ mode = "start"
    /\ LET rs == Resolve(Root, <<>>, [ResolverInit EXCEPT !.locals = locals]) IN
       /\ resolver' = rs
       /\ locals' = rs.locals
       /\ mode' = IF rs.raised THEN "resolver_error" ELSE "resolved"
    /\ UNCHANGED <<scanner, parser, prog, envs, env, console, kont, cur, val, exc, visited>>

\* Interpreter.interpret(*nodes): for node in nodes: visit_node(node, self)
interpret ==
    /\ \/ /\ mode = "resolved"
          /\ IF Len(Root.kids) = 0
             THEN Go("done", <<>>, Nil, NoExc, <<>>) /\ UNCHANGED visited
             ELSE Visit(<<1>>, <<[Frame("interpret", <<>>, "") EXCEPT !.i = 1]>>)
       \/ /\ Resuming("interpret")
          /\ IF Top.i < Len(Root.kids)
             THEN Visit(<<Top.i + 1>>, ReplaceTop([Top EXCEPT !.i = @ + 1]))
             ELSE Go("done", <<>>, Nil, NoExc, Pop) /\ UNCHANGED visited
    /\ UNCHANGED <<scanner, parser, prog, resolver, locals, envs, env, console>>

\* Interpreter.env_scope up to its yield: old_env = self._env; self._env = env.
\* The frames it leaves on call stack k.
EnterScope(k, new) ==
    Append(k, [Frame("env_scope", <<>>, "") EXCEPT !.old = env, !.new = new])

\* An env_scope without try/finally: an exception leaves self._env as it is.
RestoredEnv_no_finally(old_env, current, m) ==
    IF m = "raise" THEN current ELSE old_env

\* What the finally clause of env_scope stores in self._env.
RestoredEnv(old_env, current, m) == old_env

\* Interpreter.env_scope after its yield: the finally clause, on a normal
\* exit and on an exception alike.
env_scope ==
    /\ mode \in {"ret", "raise"}
    /\ kont # <<>>
    /\ Top.f = "env_scope"
    /\ env' = RestoredEnv(Top.old, env, mode)
    /\ kont' = Pop
    /\ UNCHANGED <<scanner, parser, prog, resolver, locals, envs, console, mode, cur, val, exc, visited>>

\* A return signal that the loops catch as well.
Catches_in_loops(frame, x) ==
    frame.f \in {"LoxFunction", "WhileStmt", "ForStmt"} /\ x.cls = "PyloxReturn"

\* The frame that ends the propagation of exception x: LoxFunction.__call__
\* catches PyloxReturn; nothing catches anything else.
Catches(frame, x) == frame.f = "LoxFunction" /\ x.cls = "PyloxReturn"

\* An exception leaves a call that has no handler for it; leaving
\* Interpreter.interpret, it ends the run.
propagate ==
    /\ mode = "raise"
    /\ kont # <<>>
    /\ Top.f # "env_scope"
    /\ ~Catches(Top, exc)
    /\ kont' = Pop
    /\ mode' = IF Top.f = "interpret" THEN "error" ELSE "raise"
    /\ UNCHANGED <<scanner, parser, prog, resolver, locals, envs, env, console, cur, val, exc, visited>>

\* Interpreter.visit_block_stmt
visit_block_stmt ==
    /\ \/ /\ Entering("BlockStmt")
          /\ envs' = Append(envs, Environment(env, cur))
          /\ env' = Len(envs) + 1
          /\ LET k == EnterScope(kont, Len(envs) + 1) IN
             IF Len(At(cur).kids) = 0
             THEN Return(Nil, k)
             ELSE Visit(cur \o <<1>>, Append(k, [Frame("BlockStmt", cur, "") EXCEPT !.i = 1]))
       \/ /\ Resuming("BlockStmt")
          /\ IF Top.i < Len(At(Top.path).kids)
             THEN Visit(Top.path \o <<Top.i + 1>>, ReplaceTop([Top EXCEPT !.i = @ + 1]))
             ELSE Return(Nil, Pop)
          /\ UNCHANGED <<envs, env>>
    /\ UNCHANGED <<scanner, parser, prog, resolver, locals, console>>

\* Interpreter.visit_class_stmt
visit_class_stmt ==
    /\ Entering("ClassStmt")
    /\ Raise(Exception("NotImplementedError", ""), kont)
    /\ UNCHANGED <<scanner, parser, prog, resolver, locals, envs, env, console>>

\* Interpreter.visit_expr_stmt
visit_expr_stmt ==
    /\ \/ /\ Entering("ExprStmt")
          /\ Visit(cur \o <<1>>, Push(Frame("ExprStmt", cur, "")))
       \/ /\ Resuming("ExprStmt")
          /\ Return(Nil, Pop)
    /\ UNCHANGED <<scanner, parser, prog, resolver, locals, envs, env, console>>

\* A function value that captures global_env instead of the current
\* environment.
FunctionClosure_global(current) == GlobalEnv

\* The closure of the function value a FunStmt creates: closure=self.env.
FunctionClosure(current) == current

\* Interpreter.visit_fun_stmt
visit_fun_stmt ==
    /\ Entering("FunStmt")
    /\ envs' = Environment_define(envs, env, At(cur).name,
                                  LoxFunction(FunctionClosure(env), At(cur).name, cur))
    /\ Return(Nil, kont)
    /\ UNCHANGED <<scanner, parser, prog, resolver, locals, env, console>>

\* The top of the loop of visit_for_stmt, with the ForStmt call `frame` on
\* call stack k: the condition if there is one, else the body.
ForLoopTop(frame, k) ==
    IF At(frame.path).kids[2].k # "None"
    THEN Visit(frame.path \o <<2>>, Append(k, [frame EXCEPT !.s = "condition"]))
    ELSE Visit(frame.path \o <<4>>, Append(k, [frame EXCEPT !.s = "body"]))

\* Interpreter.visit_for_stmt.  Its print(stmt.initializer) writes to
\* sys.stdout, not to test_console.
visit_for_stmt ==
    /\ \/ /\ Entering("ForStmt")
          /\ envs' = Append(envs, Environment(env, cur))
          /\ env' = Len(envs) + 1
          /\ LET k == EnterScope(kont, Len(envs) + 1) IN
             IF At(cur).kids[1].k # "None"
             THEN Visit(cur \o <<1>>, Append(k, Frame("ForStmt", cur, "initializer")))
             ELSE ForLoopTop(Frame("ForStmt", cur, ""), k)
       \/ /\ Resuming("ForStmt")
          /\ CASE Top.s \in {"initializer", "increment"} -> ForLoopTop(Top, Pop)
               [] Top.s = "condition" ->
                    IF is_truthy(val)
                    THEN Visit(Top.path \o <<4>>, ReplaceTop([Top EXCEPT !.s = "body"]))
                    ELSE Return(Nil, Pop)
               [] Top.s = "body" ->
                    IF At(Top.path).kids[3].k # "None"
                    THEN Visit(Top.path \o <<3>>, ReplaceTop([Top EXCEPT !.s = "increment"]))
                    ELSE ForLoopTop(Top, Pop)
          /\ UNCHANGED <<envs, env>>
    /\ UNCHANGED <<scanner, parser, prog, resolver, locals, console>>

\* Interpreter.visit_if_stmt
visit_if_stmt ==
    /\ \/ /\ Entering("IfStmt")
          /\ Visit(cur \o <<1>>, Push(Frame("IfStmt", cur, "condition")))
       \/ /\ Resuming("IfStmt")
          /\ IF Top.s = "condition" /\ is_truthy(val)
             THEN Visit(Top.path \o <<2>>, ReplaceTop([Top EXCEPT !.s = "branch"]))
             ELSE IF Top.s = "condition" /\ At(Top.path).kids[3].k # "None"
             THEN Visit(Top.path \o <<3>>, ReplaceTop([Top EXCEPT !.s = "branch"]))
             ELSE Return(Nil, Pop)
    /\ UNCHANGED <<scanner, parser, prog, resolver, locals, envs, env, console>>

\* Interpreter.visit_print_stmt
visit_print_stmt ==
    /\ \/ /\ Entering("PrintStmt")
          /\ Visit(cur \o <<1>>, Push(Frame("PrintStmt", cur, "")))
          /\ UNCHANGED console
       \/ /\ Resuming("PrintStmt")
          /\ console' = Append(console, as_str(val))
          /\ Return(Nil, Pop)
    /\ UNCHANGED <<scanner, parser, prog, resolver, locals, envs, env>>

\* Interpreter.visit_return_stmt
visit_return_stmt ==
    /\ \/ /\ Entering("ReturnStmt")
          /\ IF At(cur).kids[1].k # "None"
             THEN Visit(cur \o <<1>>, Push(Frame("ReturnStmt", cur, "")))
             ELSE Raise(PyloxReturn(Nil), kont)
       \/ /\ Resuming("ReturnStmt")
          /\ Raise(PyloxReturn(val), kont)
    /\ UNCHANGED <<scanner, parser, prog, resolver, locals, envs, env, console>>

\* Interpreter.visit_var_stmt
visit_var_stmt ==
    /\ \/ /\ Entering("VarStmt")
          /\ IF At(cur).kids[1].k # "None"
             THEN Visit(cur \o <<1>>, Push(Frame("VarStmt", cur, ""))) /\ UNCHANGED envs
             ELSE /\ envs' = Environment_define(envs, env, At(cur).name, Nil)
                  /\ Return(Nil, kont)
       \/ /\ Resuming("VarStmt")
          /\ envs' = Environment_define(envs, env, At(Top.path).name, val)
          /\ Return(Nil, Pop)
    /\ UNCHANGED <<scanner, parser, prog, resolver, locals, env, console>>

\* Interpreter.visit_while_stmt
visit_while_stmt ==
    /\ \/ /\ Entering("WhileStmt")
          /\ Visit(cur \o <<1>>, Push(Frame("WhileStmt", cur, "condition")))
       \/ /\ Resuming("WhileStmt")
          /\ IF Top.s = "body"
             THEN Visit(Top.path \o <<1>>, ReplaceTop([Top EXCEPT !.s = "condition"]))
             ELSE IF is_truthy(val)
             THEN Visit(Top.path \o <<2>>, ReplaceTop([Top EXCEPT !.s = "body"]))
             ELSE Return(Nil, Pop)
    /\ UNCHANGED <<scanner, parser, prog, resolver, locals, envs, env, console>>

\* A Distances keyed by the value of the node: an occurrence that is equal
\* to another as a value gets the other's entry.
Distances_get_by_equality(path) ==
    LET same == {q \in DOMAIN locals : At(q) = At(path)} IN
    IF same = {} THEN NotFound
    ELSE IF same \ {path} # {} THEN locals[CHOOSE q \in same \ {path} : TRUE]
    ELSE locals[path]

\* Distances.get(expr): data is keyed by id(expr), the occurrence of the
\* node; NotFound stands for None.
Distances_get(path) ==
    IF path \in DOMAIN locals THEN locals[path] ELSE NotFound

\* The store of visit_assign_expr for the AssignExpr at `path`:
\* distance = self._locals.get(expr), then assign_at on the current
\* environment or assign on global_env.
assign_variable(path, value) ==
    IF Distances_get(path) # NotFound
    THEN Environment_assign_at(envs, env, Distances_get(path), At(path).name, value)
    ELSE Environment_assign(envs, GlobalEnv, At(path).name, value)

\* Interpreter.visit_assign_expr
visit_assign_expr ==
    /\ \/ /\ Entering("AssignExpr")
          /\ Visit(cur \o <<1>>, Push(Frame("AssignExpr", cur, "")))
          /\ UNCHANGED envs
       \/ /\ Resuming("AssignExpr")
          /\ LET r == assign_variable(Top.path, val) IN
             IF r.err = ""
             THEN envs' = r.heap /\ Return(val, Pop)
             ELSE UNCHANGED envs /\ Raise(Exception(r.err, At(Top.path).name), kont)
    /\ UNCHANGED <<scanner, parser, prog, resolver, locals, env, console>>

\* Interpreter.visit_binary_expr
visit_binary_expr ==
    /\ \/ /\ Entering("BinaryExpr")
          /\ Visit(cur \o <<1>>, Push(Frame("BinaryExpr", cur, "left")))
       \/ /\ Resuming("BinaryExpr")
          /\ IF Top.s = "left"
             THEN Visit(Top.path \o <<2>>,
                        ReplaceTop([Top EXCEPT !.s = "right", !.vals = <<val>>]))
             ELSE LET r == BinaryOp(At(Top.path).name, Top.vals[1], val) IN
                  IF r.err = "" THEN Return(r.v, Pop)
                  ELSE Raise(Exception(r.err, IF r.err = "ZeroDivisionError"
                                                     THEN "float division by zero"
                                                     ELSE "Invalid type"), kont)
    /\ UNCHANGED <<scanner, parser, prog, resolver, locals, envs, env, console>>

\* LoxCallable.arity of a callable value.
arity(func) == IF func.t = "LoxFunction" THEN Len(At(func.p).params) ELSE 0

\* Interpreter.visit_call_expr.  The node's kids are the callee and then the
\* arguments, so argument j is kid j + 1.
visit_call_expr ==
    /\ \/ /\ Entering("CallExpr")
          /\ Visit(cur \o <<1>>, Push(Frame("CallExpr", cur, "callee")))
       \/ /\ Resuming("CallExpr")
          /\ LET nargs == Len(At(Top.path).kids) - 1 IN
             CASE Top.s = "callee" ->
                    IF val.t \notin {"LoxFunction", "Clock"}
                    THEN Raise(Exception("RuntimeError", "is not callable."), kont)
                    ELSE IF arity(val) # nargs
                    THEN Raise(Exception("RuntimeError", "Expected arguments but got"), kont)
                    ELSE IF nargs = 0
                    THEN Go("call", <<>>, Nil, NoExc,
                            ReplaceTop([Top EXCEPT !.s = "call", !.fn = val]))
                         /\ UNCHANGED visited
                    ELSE Visit(Top.path \o <<2>>,
                               ReplaceTop([Top EXCEPT !.s = "args", !.fn = val, !.i = 1]))
               [] Top.s = "args" ->
                    IF Top.i < nargs
                    THEN Visit(Top.path \o <<Top.i + 2>>,
                               ReplaceTop([Top EXCEPT !.i = @ + 1, !.vals = Append(@, val)]))
                    ELSE Go("call", <<>>, Nil, NoExc,
                            ReplaceTop([Top EXCEPT !.s = "call", !.vals = Append(@, val)]))
                         /\ UNCHANGED visited
               [] Top.s = "called" -> Return(val, Pop)
    /\ UNCHANGED <<scanner, parser, prog, resolver, locals, envs, env, console>>

\* Dynamic scoping: the call environment's parent is the caller's current
\* environment.
CallEnvParent_caller(func, current) == current

\* The parent of the environment LoxFunction.__call__ creates:
\* Environment(self.closure).
CallEnvParent(func, current) == func.n

RECURSIVE BindParams(_, _, _, _)
\* for param, arg in zip(self.declaration.params, args): env.define(...)
BindParams(heap, e, params, args) ==
    IF params = <<>> \/ args = <<>> THEN heap
    ELSE BindParams(Environment_define(heap, e, Head(params), Head(args)), e,
                    Tail(params), Tail(args))

\* LoxFunction.__call__, called by the CallExpr on top of kont.
LoxFunction_call ==
    /\ \/ /\ mode = "call"
          /\ Top.fn.t = "LoxFunction"
          /\ LET func == Top.fn
                 new == Len(envs) + 1
                 heap == Append(envs, Environment(CallEnvParent(func, env), func.p))
                 caller == ReplaceTop([Top EXCEPT !.s = "called"])
             IN IF Len(Top.vals) # arity(func)
                THEN /\ envs' = heap
                     /\ env' = env
                     /\ Raise(Exception("PyloxRuntimeError", "Expected arguments but got"),
                              caller)
                ELSE /\ envs' = BindParams(heap, new, At(func.p).params, Top.vals)
                     /\ env' = new
                     /\ Visit(func.p \o <<1>>,
                              EnterScope(Append(caller,
                                  [Frame("LoxFunction", func.p, "") EXCEPT
                                      !.fn = func, !.new = new]), new))
       \/ \* the body ended without a return: the call returns None
          /\ Resuming("LoxFunction")
          /\ Return(Nil, Pop)
          /\ UNCHANGED <<envs, env>>
       \/ \* except PyloxReturn as ret: return ret.value
          /\ mode = "raise"
          /\ kont # <<>>
          /\ Catches(Top, exc)
          /\ Return(exc.val, Pop)
          /\ UNCHANGED <<envs, env>>
    /\ UNCHANGED <<scanner, parser, prog, resolver, locals, console>>

\* What time.time() may return.
ClockValues == {0, 1}

\* Clock.__call__ (pylox/lox_builtins.py), called by the CallExpr on top of
\* kont.
Clock_call ==
    /\ mode = "call"
    /\ Top.fn.t = "Clock"
    /\ \E now \in ClockValues : Return(Num(now), ReplaceTop([Top EXCEPT !.s = "called"]))
    /\ UNCHANGED <<scanner, parser, prog, resolver, locals, envs, env, console>>

\* Interpreter.visit_grouping_expr
visit_grouping_expr ==
    /\ \/ /\ Entering("GroupingExpr")
          /\ Visit(cur \o <<1>>, Push(Frame("GroupingExpr", cur, "")))
       \/ /\ Resuming("GroupingExpr")
          /\ Return(val, Pop)
    /\ UNCHANGED <<scanner, parser, prog, resolver, locals, envs, env, console>>

\* Interpreter.visit_literal_expr
visit_literal_expr ==
    /\ Entering("LiteralExpr")
    /\ Return(At(cur).val, kont)
    /\ UNCHANGED <<scanner, parser, prog, resolver, locals, envs, env, console>>

\* An operator that returns its left operand whatever the right one is.
ReturnsLeft_always(operator, left) == TRUE

\* The test of visit_logical_expr on the left operand's value: it is
\* returned, and the right operand is not evaluated.
ReturnsLeft(operator, left) ==
    IF operator = "or" THEN is_truthy(left) ELSE ~is_truthy(left)

\* Interpreter.visit_logical_expr
visit_logical_expr ==
    /\ \/ /\ Entering("LogicalExpr")
          /\ Visit(cur \o <<1>>, Push(Frame("LogicalExpr", cur, "left")))
       \/ /\ Resuming("LogicalExpr")
          /\ IF Top.s = "right" THEN Return(val, Pop)
             ELSE IF ReturnsLeft(At(Top.path).name, val) THEN Return(val, Pop)
             ELSE Visit(Top.path \o <<2>>, ReplaceTop([Top EXCEPT !.s = "right"]))
    /\ UNCHANGED <<scanner, parser, prog, resolver, locals, envs, env, console>>

\* Interpreter.visit_unary_expr
visit_unary_expr ==
    /\ \/ /\ Entering("UnaryExpr")
          /\ Visit(cur \o <<1>>, Push(Frame("UnaryExpr", cur, "")))
       \/ /\ Resuming("UnaryExpr")
          /\ LET r == UnaryOp(At(Top.path).name, val) IN
             IF r.err = "" THEN Return(r.v, Pop)
             ELSE Raise(Exception(r.err, "Invalid type"), kont)
    /\ UNCHANGED <<scanner, parser, prog, resolver, locals, envs, env, console>>

\* Interpreter.lookup_variable
lookup_variable(path) ==
    IF Distances_get(path) # NotFound
    THEN Environment_get_at(envs, env, Distances_get(path), At(path).name)
    ELSE Environment_get(envs, GlobalEnv, At(path).name)

\* Interpreter.visit_var_expr
visit_var_expr ==
    /\ Entering("VarExpr")
    /\ LET r == lookup_variable(cur) IN
       IF r.err = "" THEN Return(r.v, kont)
       ELSE Raise(Exception(r.err, At(cur).name), kont)
    /\ UNCHANGED <<scanner, parser, prog, resolver, locals, envs, env, console>>

Next ==
    \/ resolve
    \/ interpret
    \/ env_scope
    \/ propagate
    \/ LoxFunction_call
    \/ Clock_call
    \/ visit_assign_expr
    \/ visit_binary_expr
    \/ visit_call_expr
    \/ visit_grouping_expr
    \/ visit_literal_expr
    \/ visit_logical_expr
    \/ visit_unary_expr
    \/ visit_var_expr
    \/ visit_block_stmt
    \/ visit_class_stmt
    \/ visit_expr_stmt
    \/ visit_fun_stmt
    \/ visit_for_stmt
    \/ visit_if_stmt
    \/ visit_print_stmt
    \/ visit_return_stmt
    \/ visit_var_stmt
    \/ visit_while_stmt

Spec == Init /\ [][Next]_vars

ParserInit ==
    /\ scanner = NoScanner
    /\ parser \in {Parser_from_source(source) : source \in ParserSources}
    \* the resolver and the interpreter are not run: their state stays as
    \* constructed
    /\ prog = [ctx |-> <<>>, frag |-> "builtin"]
    /\ resolver = ResolverInit
    /\ locals = EmptyMap
    /\ envs = Environment_define(<<Environment(NoEnv, <<>>)>>, GlobalEnv, "clock", Clock)
    /\ env = GlobalEnv
    /\ console = <<>>
    /\ kont = <<>>
    /\ mode = "start"
    /\ cur = <<>>
    /\ val = Nil
    /\ exc = NoExc
    /\ visited = {}

\* One turn of the loop of Parser.parse:
\*   while not self.tokens.is_at_end: statements.append(self.parse_declaration())
\* A PyloxParseError of parse_declaration leaves parse.
parse ==
    /\ parser.state = "parsing"
    /\ ~is_at_end(parser.tokens, parser.position)
    /\ LET r == parse_declaration(parser.tokens,
                    [pos |-> parser.position, errors |-> parser.errors,
                     raised |-> FALSE, done |-> FALSE, node |-> NoneNode])
       IN parser' = [parser EXCEPT
                        !.position = r.pos,
                        !.errors = r.errors,
                        !.statements = IF r.raised THEN @ ELSE Append(@, r.node),
                        !.state = IF r.raised THEN "raised" ELSE "parsing"]
    /\ UNCHANGED <<scanner, prog, resolver, locals, envs, env, console, kont, mode, cur, val,
                   exc, visited>>

\* Parser.parse returns the statements.
parse_return ==
    /\ parser.state = "parsing"
    /\ is_at_end(parser.tokens, parser.position)
    /\ parser' = [parser EXCEPT !.state = "returned"]
    /\ UNCHANGED <<scanner, prog, resolver, locals, envs, env, console, kont, mode, cur, val,
                   exc, visited>>

ParserNext == parse \/ parse_return

ParserSpec == ParserInit /\ [][ParserNext]_vars

ScannerInit ==
    /\ scanner \in {Scanner_from_source(text) : text \in SourceTexts}
    \* the parser, the resolver and the interpreter are not run
    /\ parser = NoParser
    /\ prog = [ctx |-> <<>>, frag |-> "builtin"]
    /\ resolver = ResolverInit
    /\ locals = EmptyMap
    /\ envs = Environment_define(<<Environment(NoEnv, <<>>)>>, GlobalEnv, "clock", Clock)
    /\ env = GlobalEnv
    /\ console = <<>>
    /\ kont = <<>>
    /\ mode = "start"
    /\ cur = <<>>
    /\ val = Nil
    /\ exc = NoExc
    /\ visited = {}

\* The outcome of the call of _extract_token_and_advance the loop of
\* scan_tokens makes next.
Extracted == extract_token_and_advance(scanner.source)

ScannerIdle ==
    UNCHANGED <<parser, prog, resolver, locals, envs, env, console, kont, mode, cur, val,
                exc, visited>>

\* tokens.append(self._extract_token_and_advance())
scan_token ==
    /\ scanner.state = "scanning"
    /\ Extracted.outcome = "return"
    /\ scanner' = scan_tokens_turn(scanner)
    /\ ScannerIdle

\* except WhiteSpaceError: pass
scan_whitespace ==
    /\ scanner.state = "scanning"
    /\ Extracted.outcome = "WhiteSpaceError"
    /\ scanner' = scan_tokens_turn(scanner)
    /\ ScannerIdle

\* except IndexError: tokens.append(Token(TokenType.EOF, ...)); break, and
\* return tokens.
scan_eof ==
    /\ scanner.state = "scanning"
    /\ Extracted.outcome = "IndexError"
    /\ scanner' = scan_tokens_turn(scanner)
    /\ ScannerIdle

\* A PyloxScanError is caught by no clause and leaves scan_tokens.
scan_raise ==
    /\ scanner.state = "scanning"
    /\ Extracted.outcome = "PyloxScanError"
    /\ scanner' = scan_tokens_turn(scanner)
    /\ ScannerIdle

ScannerNext == scan_token \/ scan_whitespace \/ scan_eof \/ scan_raise

ScannerSpec == ScannerInit /\ [][ScannerNext]_vars



(***************************************************************************)
(* Properties.  A run is one program of Programs taken from construction   *)
(* to the return or the exception of Interpreter.interpret.                *)
(***************************************************************************)
Terminated == mode \in {"done", "error"}

RECURSIVE FragmentPath(_)
\* The block, or the statement list, that holds the fragment's statements.
FragmentPath(ctx) ==
    IF ctx = <<>> THEN <<>>
    ELSE CASE Head(ctx) = "block" -> <<1>> \o FragmentPath(Tail(ctx))
           [] Head(ctx) = "fun" -> <<1, 1>> \o FragmentPath(Tail(ctx))
           [] Head(ctx) = "for" -> <<1, 4>> \o FragmentPath(Tail(ctx))

\* The run has reached the first statement of the fragment.
Started == (FragmentPath(prog.ctx) \o <<1>>) \in visited

\* The run of fragment f, once started, ends without error having printed
\* `output`.
Prints(f, output) ==
    prog.frag = f /\ Started /\ Terminated => mode = "done" /\ console = output

\* "0", "1", .. as print writes them.
Counting(from, to) == [j \in 1..(to - from + 1) |-> ToString(from + j - 1)]

LoxFunctionFrames == {j \in 1..Len(kont) : kont[j].f = "LoxFunction"}
EnvScopeFrames == {j \in 1..Len(kont) : kont[j].f = "env_scope"}

\* The reference the interpreter is about to look up or store through its
\* recorded distance, if it is at one.
AtResolvedReference(path) ==
    /\ path \in DOMAIN locals
    /\ \/ Entering("VarExpr") /\ cur = path
       \/ Resuming("AssignExpr") /\ Top.path = path

\* C1: for every reference with a recorded hop distance d, at every
\* evaluation of it the environment d enclosing links up from the current
\* environment exists, was created for the scope in which the resolver found
\* the declaration, and holds the name; for-loops included.
C1_HopDistanceReachesDeclaringScope ==
    \A path \in DOMAIN locals :
        AtResolvedReference(path) =>
            LET e == Environment_ancestor(envs, env, locals[path]) IN
            /\ e # NoEnv
            /\ envs[e].origin = resolver.decl_scope[path]
            /\ At(path).name \in DOMAIN envs[e].values

\* C2: a for-loop whose initializer declares its variable runs without
\* error and prints 0, 1, .. up to the limit, at top level and inside blocks
\* and function bodies.
C2_ForLoopPrintsItsCounter ==
    /\ Prints("for_stmt", Counting(0, LoopLimit - 1))
    /\ Prints("for_block", Counting(0, LoopLimit - 1))

\* The function values bound in the heap.
FunctionValues ==
    UNION {{envs[e].values[n] :
               n \in {m \in DOMAIN envs[e].values : envs[e].values[m].t = "LoxFunction"}} :
           e \in 1..Len(envs)}

\* C3: a function value keeps the environment of its declaration by
\* reference: its closure is an environment created for the scope that holds
\* the declaration, and the counter program (two closures of one declaring
\* function, called after it returned) prints 1, 2 from the first closure
\* and 1 from the second.
C3_ClosureKeepsDeclaringEnvironment ==
    /\ \A func \in FunctionValues :
           envs[func.n].origin = SubSeq(func.p, 1, Len(func.p) - 1)
    /\ Prints("counter", <<"1", "2", "1">>)

\* The counter program has run to its end inside another function: both
\* closures were called after makeCounter returned.
C3_Witness ==
    /\ prog.frag = "counter" /\ prog.ctx = <<"fun">>
    /\ mode = "done" /\ Len(console) = 3

\* C4: the environment of every call in progress has the callee's closure
\* as its parent, every call in progress has an environment of its own, and
\* the scoping program (a callee that reads x, called where another x is
\* local to the caller; a recursion that prints its parameter after the
\* inner call) prints the declaration-site x and each call's own parameter.
C4_CallEnvironmentExtendsClosure ==
    /\ \A j \in LoxFunctionFrames : envs[kont[j].new].enclosing = kont[j].fn.n
    /\ \A i, j \in LoxFunctionFrames : i # j => kont[i].new # kont[j].new
    /\ Prints("scoping", <<"1">> \o Counting(0, RecDepth))

\* Two calls of the recursive function are in progress inside a block, each
\* with its own binding of the parameter.
C4_Witness ==
    /\ prog.frag = "scoping" /\ prog.ctx = <<"block">>
    /\ \E i, j \in LoxFunctionFrames :
          /\ i < j /\ kont[i].fn = kont[j].fn
          /\ "n" \in DOMAIN envs[kont[i].new].values
          /\ "n" \in DOMAIN envs[kont[j].new].values
          /\ envs[kont[i].new].values["n"] # envs[kont[j].new].values["n"]

\* C5: a variable declared in an inner block shadows the outer one only
\* inside the block, names not redeclared are read from the nearest
\* enclosing scope that declares them, and after the block the outer
\* variable is read with its value unchanged.
C5_BlockShadowing ==
    Prints("shadow", <<"21", "12", "3", "11", "12", "3", "1", "2", "3">>)

\* The shadow program has run to its end with its variables local to a block.
C5_Witness ==
    /\ prog.frag = "shadow" /\ prog.ctx = <<"block">>
    /\ mode = "done" /\ Len(console) = 9

\* The environment that was current when the env_scope of frame j was
\* entered: that of the scope entered before it, or global_env.
EnvBelow(j) ==
    IF \E i \in EnvScopeFrames : i < j
    THEN kont[Max({i \in EnvScopeFrames : i < j})].new
    ELSE GlobalEnv

\* C6: the current environment is the one of the innermost block, call or
\* for-loop still in progress, each of which holds as old_env the
\* environment of the one around it: whenever one of them has been left, by
\* its end, a return or an error, the current environment is again what it
\* was before it was entered, and global_env once the run is over.
C6_EnvironmentRestoredOnExit ==
    /\ env = EnvBelow(Len(kont) + 1)
    /\ \A j \in EnvScopeFrames : kont[j].old = EnvBelow(j)
    /\ Terminated => env = GlobalEnv

\* An error has left two nested scopes and the run, and the current
\* environment is global_env again.
C6_Witness ==
    /\ mode = "error" /\ prog.ctx = <<"block", "fun">>
    /\ Len(envs) > 3 /\ env = GlobalEnv

\* C7: a return signal is raised only inside a call, and the return program
\* (a return inside if, block and while of an inner call made by an outer
\* call; a return inside a for-loop; a bare return) prints the inner call's
\* value from the outer call, which goes on, then the outer call's value,
\* then nil, and nothing from the statements after a return.
C7_ReturnReachesInnermostCall ==
    /\ mode = "raise" /\ exc.cls = "PyloxReturn" => LoxFunctionFrames # {}
    /\ Prints("return", <<"1", "11", "nil">>)

\* The inner call has returned its value to the call expression of the
\* outer call, which is still in progress.
C7_Witness ==
    /\ prog.frag = "return" /\ mode = "ret" /\ val = Num(1)
    /\ Top.f = "CallExpr" /\ Top.s = "called"
    /\ LoxFunctionFrames # {}

\* C8: when a call fails because the argument count differs from the arity,
\* every argument expression of the call has been evaluated before.
C8_ArgumentsEvaluatedBeforeArityCheck ==
    /\ mode = "raise" /\ exc.message = "Expected arguments but got"
    /\ Top.f = "CallExpr" /\ Top.s = "callee"
    => \A j \in 2..Len(At(Top.path).kids) : (Top.path \o <<j>>) \in visited

\* C9: every exception that ends a run is a PyloxRuntimeError.
C9_RuntimeFailuresArePyloxRuntimeError ==
    mode = "error" => exc.cls = "PyloxRuntimeError"

\* C10: an assignment that succeeds leaves the set of names bound in every
\* environment as it was.
C10_AssignmentCreatesNoBinding ==
    Resuming("AssignExpr") =>
        LET r == assign_variable(Top.path, val) IN
        r.err = "" =>
            \A e \in 1..Len(envs) : DOMAIN r.heap[e].values = DOMAIN envs[e].values

\* The operator and the operands of the binary expression whose operands
\* have both been evaluated.
AtBinaryOperator(op) ==
    Resuming("BinaryExpr") /\ Top.s = "right" /\ At(Top.path).name = op

\* Equality of two Lox values: the same kind and the same value.
LoxEqual(left, right) == left.t = right.t /\ left = right

\* C11: == yields true for nil == nil, false for operands of different
\* kinds, and compares two numbers or two strings by value; != yields the
\* negation.
C11_EqualityByKindAndValue ==
    /\ AtBinaryOperator("==") =>
           BinaryOp("==", Top.vals[1], val) = Ok(Bool(LoxEqual(Top.vals[1], val)))
    /\ AtBinaryOperator("!=") =>
           BinaryOp("!=", Top.vals[1], val) = Ok(Bool(~LoxEqual(Top.vals[1], val)))

\* C12: / returns a value for every pair of numbers, a zero divisor
\* included, and the division program prints 2, 1 and, for 1/0 == 1/0, true.
C12_DivisionByZeroYieldsValue ==
    /\ AtBinaryOperator("/") /\ AllFloat(<<Top.vals[1], val>>) =>
           BinaryOp("/", Top.vals[1], val).err = ""
    /\ Prints("division", <<"2", "1", "true">>)

\* The left operand of the logical expression on top of the stack has been
\* evaluated to a value that settles the result.
LeftSettles ==
    /\ Resuming("LogicalExpr") /\ Top.s = "left"
    /\ IF At(Top.path).name = "or"
       THEN val \notin {Nil, Bool(FALSE)}
       ELSE val \in {Nil, Bool(FALSE)}

\* C13: when the left operand settles the result (truthy for or, nil or
\* false for and) the expression returns that value as it is and no node is
\* visited; otherwise the right operand is visited next and its value is
\* returned as it is.  The logical program shows the right operands'
\* assignments happening only in the second case.
C13_LogicalShortCircuit ==
    /\ [][/\ LeftSettles =>
                mode' = "ret" /\ val' = val /\ kont' = Pop /\ visited' = visited
          /\ Resuming("LogicalExpr") /\ Top.s = "left" /\ ~LeftSettles =>
                mode' = "visit" /\ cur' = Top.path \o <<2>>
          /\ Resuming("LogicalExpr") /\ Top.s = "right" =>
                mode' = "ret" /\ val' = val /\ kont' = Pop]_vars
    /\ [](Prints("logical", <<"1", "0", "6", "6", "nil", "6", "8", "8", "nil", "a">>))

\* The logical program has run to its end with x local to a function.
C13_Witness ==
    /\ prog.frag = "logical" /\ prog.ctx = <<"fun">>
    /\ mode = "done" /\ Len(console) = 10


\* The resolver pass is over.
Resolved == mode # "start"

\* The message of the PyloxResolverError the pass ended with, "" if none.
ResolverMessage ==
    IF resolver.raised THEN resolver.errors[Len(resolver.errors)].message ELSE ""

RECURSIVE Paths(_)
\* The paths of all nodes below `node`, the node's own (<<>>) included.
Paths(node) ==
    {<<>>} \cup UNION {{<<j>> \o q : q \in Paths(node.kids[j])} : j \in DOMAIN node.kids}

\* The constructs whose execution creates an Environment of their own: a
\* block, a function's body with its parameters, a for-loop with its
\* initializer.  The statement list of the program is the global scope.
ScopeKinds == {"BlockStmt", "FunStmt", "ForStmt"}

ProperPrefixes(path) == {SubSeq(path, 1, j) : j \in 0..(Len(path) - 1)}

\* The innermost scope-creating node around the node at `path`; <<>> is the
\* global scope.
ScopeOf(path) ==
    LET around == {q \in ProperPrefixes(path) :
                       q = <<>> \/ NodeAt(Root, q).k \in ScopeKinds}
    IN CHOOSE q \in around : \A r \in around : Len(r) <= Len(q)

InLocalScope(path) == ScopeOf(path) # <<>>

\* C14: at top level `var a = a;` passes the resolver, its initializer reads
\* nil at run time, a is defined as nil and the statements after it run.
C14_GlobalSelfInitialiserReadsNil ==
    prog.frag = "var_self" /\ prog.ctx = <<>> =>
        /\ mode # "resolver_error"
        /\ Terminated => mode = "done" /\ console = <<"nil">>

\* `var a = a;`: the initializer is a read of the declared name.
SelfInitialising(path) ==
    /\ path # <<>>
    /\ At(path).k = "VarStmt"
    /\ At(path \o <<1>>).k = "VarExpr"
    /\ At(path \o <<1>>).name = At(path).name

SelfInitialisingFragments == {"var_self", "var_self_outer", "for_self"}

\* C15: a declaration `var a = a;` is a ResolverError exactly when it stands
\* in a local scope, whatever the enclosing scopes declare; only at global
\* scope does the resolver accept it.
C15_SelfInitialiserRejectedInLocalScope ==
    Resolved /\ prog.frag \in SelfInitialisingFragments =>
        ((\E path \in Paths(Root) : SelfInitialising(path) /\ InLocalScope(path))
            <=> ResolverMessage = "Cannot read local variable in its own initializer")

\* The declarations of the program as <<scope, name, site>>: a var and a
\* function name belong to the scope around the statement, a parameter to the
\* scope of its function.
Declarations ==
    {<<ScopeOf(path), At(path).name, path>> :
        path \in {q \in Paths(Root) : q # <<>> /\ At(q).k \in {"VarStmt", "FunStmt"}}}
    \cup UNION {{<<path, At(path).params[j], path \o <<0, j>>>> : j \in DOMAIN At(path).params} :
                   path \in {q \in Paths(Root) : q # <<>> /\ At(q).k = "FunStmt"}}

\* Two declarations of one name in one local scope.
DuplicateLocal ==
    \E d1, d2 \in Declarations :
        d1 # d2 /\ d1[1] = d2[1] /\ d1[2] = d2[2] /\ d1[1] # <<>>

RedeclaringFragments ==
    {"redeclare", "redeclare_fun", "dup_param", "param_shadow", "for_shadow", "two_for"}

\* C16: the resolver raises "already exists in scope" exactly when a name is
\* declared twice in the same local scope; a name of an enclosing scope may be
\* declared again, and so may a global at global scope.
C16_RedeclarationRejectedInSameLocalScope ==
    Resolved /\ prog.frag \in RedeclaringFragments =>
        (DuplicateLocal <=> ResolverMessage = "already exists in scope")


\* The references of the program that are nodes of kind k.
NodesOfKind(k) == {path \in Paths(Root) : At(path).k = k}

\* C17: the resolver walks the methods of a class: `this` and the variables
\* of a method body get hop distances, the static errors of a method body
\* are raised, and `this` outside any class is an error.
C17_ClassMethodsAreResolved ==
    Resolved =>
        /\ prog.frag = "class_this" =>
               /\ ~resolver.raised
               /\ NodesOfKind("ThisExpr") \cup {q \in NodesOfKind("VarExpr") : At(q).name = "p"}
                      \subseteq DOMAIN locals
        /\ prog.frag = "class_dup" => ResolverMessage = "already exists in scope"
        /\ prog.frag = "class_self" =>
               ResolverMessage = "Cannot read local variable in its own initializer"
        /\ prog.frag = "class_super" =>
               ResolverMessage = "Cannot use 'super' in a class with no superclass"
        /\ prog.frag = "this_outside" =>
               ResolverMessage = "Cannot use 'this' outside of a class"

\* C18: `class Empty{}` is resolved and interpreted without error and prints
\* nothing.
C18_EmptyClassRuns ==
    prog.frag = "class" /\ Resolved =>
        /\ mode # "resolver_error"
        /\ Terminated => mode = "done" /\ console = <<>>


(***************************************************************************)
(* Properties of the parser, under ParserSpec: a run is one call of        *)
(* Parser.parse on one source of ParserSources.                            *)
(***************************************************************************)
ParseEnded == parser.state # "parsing"

\* The lines of the source that hold a statement with a syntax error.
BadLines == {j \in DOMAIN parser.source : parser.source[j] \in BadStatements}

RecordedLines == {parser.errors[i].line : i \in DOMAIN parser.errors}

\* C19: Parser.parse records the error of a bad statement, synchronises and
\* parses on: when it ends, the error of every bad statement is recorded,
\* every other statement is in its result, and a source with a bad statement
\* has errors recorded against it.
C19_ParseGoesOnAfterAnError ==
    ParseEnded /\ parser.source[1] \notin ArityStatements =>
        /\ RecordedLines = BadLines
        /\ Len(parser.statements) = Cardinality(DOMAIN parser.source \ BadLines)

\* The parameters of a function declaration, the arguments of a call
\* statement.
Operands(statement) ==
    IF statement.k = "FunStmt" THEN Len(statement.params)
    ELSE Len(statement.kids[1].kids) - 1

\* C20: up to 255 parameters or arguments parse without error; with more, an
\* error is recorded, parsing is not aborted and the FunStmt or the CallExpr
\* is produced with all of them.
C20_ArityLimitIsRecordedNotRaised ==
    ParseEnded /\ parser.source[1] \in ArityStatements =>
        /\ parser.state = "returned"
        /\ Len(parser.statements) = Len(parser.source)
        /\ Operands(parser.statements[1]) = parser.source[1].n
        /\ (parser.source[1].n <= MaxArity <=> parser.errors = <<>>)


\* C29: a parse run that met one syntax error holds exactly one entry for it
\* in Errors.errors, however deep in blocks the error stands.
C29_EachParseErrorRecordedOnce ==
    ParseEnded /\ Len(parser.source) = 1 /\ parser.source[1] \in BadStatements =>
        Len(parser.errors) = 1


\* C30: when Resolver.resolve has returned or raised, the scope stack is as
\* deep as before the call (empty) and current_function is what it was (NONE).
C30_ResolverStateRestored ==
    Resolved => resolver.scopes = <<>> /\ resolver.current_function = "NONE"


\* The nodes that refer to a variable.
References == NodesOfKind("VarExpr") \cup NodesOfKind("AssignExpr")

\* C27: the distance the interpreter finds for the reference it evaluates is
\* the one the resolver recorded for that very occurrence, none if it
\* recorded none, whatever it recorded for nodes that are equal to it; a
\* reference without a distance is read from the globals.
C27_DistancesKeyedByOccurrence ==
    /\ Entering("VarExpr") \/ Entering("AssignExpr") =>
           Distances_get(cur) = IF cur \in DOMAIN resolver.locals
                                THEN resolver.locals[cur] ELSE NotFound
    /\ Prints("occurrences", <<"1", "2", "2", "1">>)

\* A reference is read while an equal node has another distance, or none.
C27_Witness ==
    /\ prog.frag = "occurrences"
    /\ Entering("VarExpr")
    /\ \E q \in References :
           /\ q # cur
           /\ At(q) = At(cur)
           /\ Distances_get(q) # Distances_get(cur)
    /\ prog.ctx = <<>> => (At(cur).name = "a" => Distances_get(cur) = NotFound)


\* Following the enclosing links from e ends at the global environment:
\* the walk is finite and, as the global environment has no enclosing one,
\* meets no environment twice.
EndsAtGlobal(e) ==
    \E distance \in 0..Len(envs) : Environment_ancestor(envs, e, distance) = GlobalEnv

\* The function values in flight: the value just produced and the callee
\* and arguments of the calls in progress.
ValuesInFlight ==
    {val} \cup UNION {{kont[j].fn} \cup {kont[j].vals[a] : a \in DOMAIN kont[j].vals} :
                         j \in {i \in DOMAIN kont : kont[i].f = "CallExpr"}}

Closures ==
    {func.n : func \in FunctionValues \cup {v \in ValuesInFlight : v.t = "LoxFunction"}}

\* C28: the enclosing links from the current environment and from the
\* closure of every function value lead to the global environment in
\* finitely many steps without a cycle, and no step changes the enclosing
\* link of an environment that exists.
C28_EnclosingChainsEndAtGlobal ==
    /\ [](\A e \in {env} \cup Closures : EndsAtGlobal(e))
    /\ [][\A e \in DOMAIN envs :
              e \in DOMAIN envs' /\ envs'[e].enclosing = envs[e].enclosing]_vars

\* A call is running in a nested environment while a function value has
\* closed over an environment other than the global one.
C28_Witness ==
    /\ LoxFunctionFrames # {}
    /\ Environment_ancestor(envs, env, 2) \notin {NoEnv, GlobalEnv}
    /\ Closures \ {GlobalEnv} # {}


\* scan_tokens has ended, by returning its tokens or by raising.
ScanEnded == scanner.state \in {"returned", "raised"}

TokenTypes(tokens) == [j \in DOMAIN tokens |-> tokens[j].token_type]

\* C23: whatever the source text, an unknown character or an unterminated
\* string included, scan_tokens ends by returning a list of tokens whose
\* last element, and no other, is the EOF token.
C23_ScanReturnsTokensEndingInEOF ==
    ScanEnded =>
        /\ scanner.state = "returned"
        /\ {j \in DOMAIN scanner.tokens : scanner.tokens[j].token_type = "EOF"}
               = {Len(scanner.tokens)}

\* The characters of the text that start no token, in a text without
\* strings and comments.
UnknownCharacters(text) ==
    IF \E j \in DOMAIN text : text[j] \in {"\"", "/"} THEN {}
    ELSE {j \in DOMAIN text :
             text[j] \notin DOMAIN SingleCharacter \cup DOMAIN MaybeMultiCharacter
                            \cup Spaces \cup Digits \cup Letters \cup {"_"}}

\* The text with a blank for each unknown character.
Blanked(text) ==
    [j \in DOMAIN text |-> IF j \in UnknownCharacters(text) THEN " " ELSE text[j]]

\* C24: an unknown character does not end the scan: scan_tokens goes on with
\* the next character and returns the tokens of the rest of the text, those
\* behind the unknown characters included.
C24_ScanGoesOnAfterUnknownCharacter ==
    ScanEnded /\ UnknownCharacters(scanner.source.text) # {} =>
        /\ scanner.state = "returned"
        /\ scanner.tokens
               = Scanner_scan_tokens(Scanner_from_source(Blanked(scanner.source.text))).tokens

\* The line of the j-th character of the text.
LineOf(text, j) == 1 + Cardinality({k \in 1..(j - 1) : text[k] = "\n"})

\* The quote that opens the string the text ends in: the last one, as a
\* string ends at the first quote behind its opening quote.
OpeningQuote(text) ==
    CHOOSE j \in DOMAIN text :
        text[j] = "\"" /\ \A k \in DOMAIN text : k > j => text[k] # "\""

\* C25: the scan error of an unterminated string carries the line of the
\* opening quote, also when the text of the string runs over further lines.
C25_UnterminatedStringIsOnOpeningLine ==
    scanner.state = "raised" /\ scanner.error.message = "Unterminated string." =>
        scanner.error.line = LineOf(scanner.source.text, OpeningQuote(scanner.source.text))

\* The text is one number, or one identifier or keyword, and nothing else.
OneLexeme(text) ==
    /\ text # <<>>
    /\ \/ \A j \in DOMAIN text : text[j] \in Digits
       \/ /\ text[1] \in Letters \cup {"_"}
          /\ \A j \in DOMAIN text : text[j] \in Letters \cup Digits \cup {"_"}

\* C26: a number, an identifier or a keyword that is the last lexeme of the
\* text, directly before the end of input, is emitted as a token: a text
\* that is one such lexeme scans to that token and EOF, and digits followed
\* by a dot scan to NUMBER, DOT, EOF.
C26_LastLexemeIsEmitted ==
    LET text == scanner.source.text IN
    /\ ScanEnded /\ OneLexeme(text) =>
           /\ scanner.state = "returned"
           /\ TokenTypes(scanner.tokens)
                  = << IF text[1] \in Digits THEN "NUMBER" ELSE from_keyword(Text(text)),
                       "EOF" >>
           /\ scanner.tokens[1].lexeme = Text(text)
    /\ ScanEnded /\ Len(text) > 1 /\ text[Len(text)] = "."
                 /\ OneLexeme(SubSeq(text, 1, Len(text) - 1)) /\ text[1] \in Digits =>
           /\ scanner.state = "returned"
           /\ TokenTypes(scanner.tokens) = <<"NUMBER", "DOT", "EOF">>


\* The last statement of the source parsed, and the expression of the last
\* statement of the result.
LastStatement == parser.source[Len(parser.source)]
LastExpression == parser.statements[Len(parser.statements)].kids[1]

\* Parser.parse has ended on a source whose last statement is an assignment.
AssignmentParsed ==
    /\ ParseEnded
    /\ parser.source # <<>>
    /\ LastStatement.lexemes \in Assignments

\* The left-hand side and the right-hand side of the assignment.
TargetParsed ==
    CHOOSE target \in AssignmentTargets :
        \E value \in AssignmentValues, before, after \in {<<>>, << <<"\n">> >>} :
            LastStatement.lexemes
                = target.lexemes \o before \o << <<"=">> >> \o after \o value
ValueParsed ==
    CHOOSE value \in AssignmentValues :
        \E before, after \in {<<>>, << <<"\n">> >>} :
            LastStatement.lexemes
                = TargetParsed.lexemes \o before \o << <<"=">> >> \o after \o value

\* The `=` behind the left-hand side: the first EQUAL token.
EqualsToken ==
    parser.tokens[CHOOSE j \in DOMAIN parser.tokens :
                      /\ parser.tokens[j].token_type = "EQUAL"
                      /\ \A i \in 1..(j - 1) : parser.tokens[i].token_type # "EQUAL"]

\* C21: with an `=` behind the left-hand side, a variable gives an
\* AssignExpr and a property access a SetExpr; any other left-hand side
\* raises the parse error 'Invalid assignment target.' with the line of the
\* `=` token; assignment associates to the right.
C21_AssignmentTargets ==
    AssignmentParsed =>
        CASE TargetParsed.kind = "VarExpr" ->
               /\ parser.state = "returned" /\ parser.errors = <<>>
               /\ LastExpression.k = "AssignExpr" /\ LastExpression.name = "a"
               /\ ValueParsed = << <<"c">> >> => LastExpression.kids[1] = VarExpr("c")
               /\ ValueParsed = << <<"b">>, <<"=">>, <<"c">> >> =>
                      LastExpression.kids[1] = AssignExpr("b", VarExpr("c"))
          [] TargetParsed.kind = "GetExpr" ->
               /\ parser.state = "returned" /\ parser.errors = <<>>
               /\ LastExpression.k = "SetExpr" /\ LastExpression.name = "b"
               /\ LastExpression.kids[1].k \in {"VarExpr", "CallExpr"}
               /\ ValueParsed = << <<"b">>, <<"=">>, <<"c">> >> =>
                      LastExpression.kids[2] = AssignExpr("b", VarExpr("c"))
               /\ ValueParsed = << <<"b">>, <<".">>, <<"c">>, <<"=">>, <<"1">> >> =>
                      LastExpression.kids[2] = SetExpr(VarExpr("b"), "c", LiteralExpr(Num(1)))
          [] OTHER ->
               /\ parser.state = "raised"
               /\ parser.errors # <<>>
               /\ parser.errors[Len(parser.errors)]
                      = [message |-> "Invalid assignment target.", line |-> EqualsToken.line]

\* An assignment to a parenthesised variable has been rejected, its `=` on
\* a line of its own behind a first statement.
C21_Witness ==
    /\ AssignmentParsed
    /\ Len(parser.source) = 2
    /\ TargetParsed.kind = "GroupingExpr"
    /\ parser.state = "raised"
    /\ EqualsToken.line = 3
    /\ parser.tokens[Len(parser.tokens) - 1].line = 4


\* The level of the grammar a node is built at, the loosest binding first.
Level(node) ==
    CASE node.k = "LogicalExpr" -> IF node.name = "or" THEN 1 ELSE 2
      [] node.k = "BinaryExpr" ->
           (CASE node.name \in {"==", "!="} -> 3
              [] node.name \in {"<", "<=", ">", ">="} -> 4
              [] node.name \in {"+", "-"} -> 5
              [] node.name \in {"*", "/"} -> 6)
      [] node.k = "UnaryExpr" -> 7
      [] OTHER -> 8

RECURSIVE RespectsPrecedence(_)
\* Every operator of the tree has operands that bind at least as tightly on
\* its left and more tightly on its right: tighter levels group first and
\* equal levels group to the left; the operand of a unary operator is a
\* unary or a primary; what stands in parentheses is free.
RespectsPrecedence(node) ==
    /\ node.k \in {"LogicalExpr", "BinaryExpr"} =>
           Level(node.kids[1]) >= Level(node) /\ Level(node.kids[2]) > Level(node)
    /\ node.k = "UnaryExpr" => Level(node.kids[1]) >= 7
    /\ \A j \in DOMAIN node.kids : RespectsPrecedence(node.kids[j])

RECURSIVE InOrder(_)
\* The lexemes of the tree from left to right, a GroupingExpr in its
\* parentheses.
InOrder(node) ==
    CASE node.k \in {"LogicalExpr", "BinaryExpr"} ->
           InOrder(node.kids[1]) \o << node.name >> \o InOrder(node.kids[2])
      [] node.k = "UnaryExpr" -> << node.name >> \o InOrder(node.kids[1])
      [] node.k = "GroupingExpr" -> << "(" >> \o InOrder(node.kids[1]) \o << ")" >>
      [] node.k = "LiteralExpr" ->
           << IF node.val = Bool(TRUE) THEN "true" ELSE ToString(node.val.n) >>
      [] OTHER -> << node.name >>

\* Parser.parse has ended on a source that is one expression statement
\* without an assignment.
ExpressionParsed ==
    /\ ParseEnded
    /\ parser.source # <<>>
    /\ LastStatement.lexemes \in Expressions

\* 1 + 2 * 3 + 4
SumOfProduct ==
    << Operand(1), <<"+">>, Operand(2), <<"*">>, Operand(3), <<"+">>, Operand(4) >>

\* C22: unary operators bind tighter than * and /, these tighter than + and
\* -, then comparison, equality, `and`, `or`; operators of one level group
\* to the left (1 + 2 * 3 + 4 is (1 + (2 * 3)) + 4); a parenthesised
\* expression is one operand, a GroupingExpr.  The tree of an expression
\* keeps the lexemes in their order, so the grouping is the only freedom.
C22_PrecedenceAndAssociativity ==
    ExpressionParsed =>
        /\ parser.state = "returned" /\ parser.errors = <<>>
        /\ RespectsPrecedence(LastExpression)
        /\ InOrder(LastExpression)
               = [j \in 1..(Len(parser.tokens) - 2) |-> parser.tokens[j].lexeme]
        /\ LastStatement.lexemes = SumOfProduct =>
               LastExpression
                   = BinaryExpr(BinaryExpr(LiteralExpr(Num(1)), "+",
                                           BinaryExpr(LiteralExpr(Num(2)), "*",
                                                      LiteralExpr(Num(3)))),
                                "+", LiteralExpr(Num(4)))

\* 1 + 2 * 3 + 4 has been parsed, the product below the first sum.
C22_Witness ==
    /\ ExpressionParsed
    /\ LastStatement.lexemes = SumOfProduct
    /\ parser.state = "returned"
    /\ LastExpression.kids[1].kids[2].name = "*"

====
